---- MODULE Spec2Model ----
(***************************************************************************)
(* Model of the Proxmox MCP server's tool layer: the dispatcher closures   *)
(* of server.py and the tool classes under tools/.  One handled call is    *)
(* one step: the action draws the call's arguments and the responses of    *)
(* the hypervisor client (the "Facade": proxmoxer's ProxmoxAPI object),    *)
(* runs the handler as the code runs it, and records the Facade calls the  *)
(* handler issued, in order, together with what the handler returned or    *)
(* raised.  The next step hands the result to the transport and the loop   *)
(* waits for the next call.                                                *)
(*                                                                         *)
(* The start of the process (main, ProxmoxMCPServer.__init__, load_config, *)
(* setup_logging) is a second state machine, StartupSpec, over the         *)
(* process's environment, the root logger and the two output streams; a    *)
(* third, LoggingSpec, applies setup_logging again and again.              *)
(*                                                                         *)
(* Record constructors list their fields in the order in which the field   *)
(* names first occur in this module, which is the order TLC keeps records  *)
(* in.                                                                     *)
(***************************************************************************)
EXTENDS Integers, Sequences, FiniteSets, TLC

VARIABLES
    op,      \* name of the operation just handled ("idle" while waiting for a call)
    args,    \* its arguments, as received by the dispatcher closure
    calls,   \* the Facade calls it issued, in issue order, each with its response
    result,  \* what it returned or raised
    shared,  \* what the calls share: the catalog, the Facade handle, the tool objects
    environ, \* the process's environment: variables, config file, file system
    config,  \* what load_config returned (<<>> before, <<c>> after)
    phase,   \* where main is
    root_logger, \* logging.getLogger(): its level and its handlers
    stdout,  \* the texts written to standard output, the protocol channel
    stderr,  \* the texts written to standard error
    exit_status, \* the status of sys.exit (<<>> while the process runs)
    setup_calls  \* setup_logging calls made so far

callVars == <<op, args, calls, result>>
procVars == <<environ, config, phase, root_logger, stdout, stderr, exit_status, setup_calls>>
vars == <<op, args, calls, result, shared, environ, config, phase, root_logger,
          stdout, stderr, exit_status, setup_calls>>

(***************************************************************************)
(* Bounds of the model.                                                    *)
(***************************************************************************)
MaxSlashes == 2       \* leading slashes put in front of a passthrough path
MaxNodes == 2         \* nodes in the cluster listing of get_vms
MaxVmsPerNode == 2    \* VMs a node lists in get_vms
MaxStorages == 2      \* storages in a node's storage listing
MaxJsonLen == 2       \* members of an object and elements of an array of a response
MaxSetupCalls == 3    \* setup_logging calls in a row

(***************************************************************************)
(* Strings the code inspects are sequences of one-character strings, so    *)
(* that lstrip, startswith, slicing, lower and "in" are computed.          *)
(***************************************************************************)
UpperToLower ==
    [c \in {"A","B","C","D","E","F","G","H","I","J","K","L","M","N","O","P",
            "Q","R","S","T","U","V","W","X","Y","Z"} |->
        CASE c = "A" -> "a" [] c = "B" -> "b" [] c = "C" -> "c" [] c = "D" -> "d"
          [] c = "E" -> "e" [] c = "F" -> "f" [] c = "G" -> "g" [] c = "H" -> "h"
          [] c = "I" -> "i" [] c = "J" -> "j" [] c = "K" -> "k" [] c = "L" -> "l"
          [] c = "M" -> "m" [] c = "N" -> "n" [] c = "O" -> "o" [] c = "P" -> "p"
          [] c = "Q" -> "q" [] c = "R" -> "r" [] c = "S" -> "s" [] c = "T" -> "t"
          [] c = "U" -> "u" [] c = "V" -> "v" [] c = "W" -> "w" [] c = "X" -> "x"
          [] c = "Y" -> "y" [] c = "Z" -> "z"]

\* str.lower()
Lower(s) ==
    [i \in 1..Len(s) |-> IF s[i] \in DOMAIN UpperToLower THEN UpperToLower[s[i]] ELSE s[i]]

\* sub in s
Contains(sub, s) ==
    \E i \in 0..(Len(s) - Len(sub)) : SubSeq(s, i + 1, i + Len(sub)) = sub

\* s.startswith(p)
StartsWith(s, p) ==
    Len(s) >= Len(p) /\ SubSeq(s, 1, Len(p)) = p

\* s.lstrip("/")
RECURSIVE Lstrip(_)
Lstrip(s) ==
    IF s # <<>> /\ Head(s) = "/" THEN Lstrip(Tail(s)) ELSE s

\* dict.get(k, default)
DictGet(d, k, default) ==
    IF k \in DOMAIN d THEN d[k] ELSE default

\* {**data, **params}: the merge with the wrong side winning
DictMerge_params_win(p, d) ==
    [k \in (DOMAIN p) \cup (DOMAIN d) |-> IF k \in DOMAIN p THEN p[k] ELSE d[k]]

\* {**p, **d}
DictMerge(p, d) ==
    [k \in (DOMAIN p) \cup (DOMAIN d) |-> IF k \in DOMAIN d THEN d[k] ELSE p[k]]

\* Python's None
None == "None"

\* the sequences over S of length at most n, without repetition
Arrangements(S, n) ==
    UNION {{q \in [1..k -> S] : \A i, j \in 1..k : q[i] = q[j] => i = j} : k \in 0..n}

StrDoesNotExist == <<"d","o","e","s"," ","n","o","t"," ","e","x","i","s","t">>
StrNotFound == <<"n","o","t"," ","f","o","u","n","d">>

(***************************************************************************)
(* The Facade.  A call is a verb, the resource path built by the chained   *)
(* attribute access, and the keyword payload.  A response either carries   *)
(* the decoded value or is an exception with a message.                    *)
(***************************************************************************)
FacadeCall(verb, path, payload) ==
    [verb |-> verb, path |-> path, payload |-> payload]

\* a call of the log: the call together with the response the Facade gave
Did(c, resp) ==
    [verb |-> c.verb, path |-> c.path, payload |-> c.payload, resp |-> resp]

IsWrite(c) == c.verb # "GET"

RespOk(v) == [ok |-> TRUE, val |-> v]
RespFail(m) == [ok |-> FALSE, msg |-> m]

\* messages a failing Facade call carries
MsgNoVm == <<"V","M"," ","d","o","e","s"," ","n","o","t"," ","e","x","i","s","t">>
MsgNotFound == <<"4","0","4"," ","N","o","t"," ","F","o","u","n","d">>
MsgTimeout == <<"t","i","m","e","o","u","t">>
FacadeMsgs == {MsgNoVm, MsgNotFound, MsgTimeout}
FacadeFailures == {RespFail(m) : m \in FacadeMsgs}

\* task identifiers a write call answers with
Upids == {"UPID:a", "UPID:b"}
WriteResps == {RespOk(u) : u \in Upids} \cup FacadeFailures

Nodes == {"pve1", "pve2"}
VmIds == {"100", "101"}

\* answers of GET nodes/{node}/qemu/{vmid}/status/current
StatusDicts ==
    {[status |-> s, name |-> "web"] : s \in {"running", "stopped", "paused"}}
        \cup {[status |-> s] : s \in {"running", "stopped"}}
        \cup {[name |-> "web"]}
StatusResps == {RespOk(d) : d \in StatusDicts} \cup FacadeFailures

(***************************************************************************)
(* Outcomes of a handler.                                                  *)
(***************************************************************************)
\* return [Content(type="text", text=...)]: a composed summary
TextResult(parts) == [outcome |-> "ok", form |-> "text", body |-> parts]
\* return [Content(type="text", text=json.dumps(v))]
JsonResult(v) == [outcome |-> "ok", form |-> "json", body |-> v]
\* raise exc(...): why names the raise site, message is the message of the
\* Facade exception the error carries (empty when it carries none)
Raised(exc, why, message) ==
    [outcome |-> "error", exc |-> exc, why |-> why, message |-> message]
\* an exception of the Facade leaving the handler as it was raised
RawFacade(resp) == Raised("FacadeException", "facade", resp.msg)

Run(cs, r) == [calls |-> cs, result |-> r]

\* ProxmoxTool._handle_error: classify a failure and raise the classified error
HandleError(operation, resp) ==
    IF Contains(StrNotFound, Lower(resp.msg)) \/ Contains(StrDoesNotExist, Lower(resp.msg))
    THEN Raised("ValueError", "not_found", resp.msg)
    ELSE Raised("RuntimeError", operation, resp.msg)

\* "does not exist" in str(e).lower() or "not found" in str(e).lower()
MentionsMissing(resp) ==
    Contains(StrDoesNotExist, Lower(resp.msg)) \/ Contains(StrNotFound, Lower(resp.msg))

VmPath(node, vmid, tail) == <<"nodes", node, "qemu", vmid>> \o tail
StatusRead(node, vmid, resp) ==
    Did(FacadeCall("GET", VmPath(node, vmid, <<"status", "current">>), <<>>), resp)
StatusWrite(node, vmid, what, resp) ==
    Did(FacadeCall("POST", VmPath(node, vmid, <<"status", what>>), <<>>), resp)

(***************************************************************************)
(* VM power management (tools/vm.py).  The four methods share one shape:   *)
(* read the status; if it is the status named noop, return the message     *)
(* noopText without a write; otherwise POST status/{what}.  A failure of   *)
(* either call whose message mentions a missing VM becomes ValueError,     *)
(* any other failure goes through _handle_error.                           *)
(***************************************************************************)
\* the power operation handing a missing VM to the catch-all RuntimeError
PowerOp_missing_is_failure(node, vmid, what, noop, noopText, doneText, statusResp, writeResp) ==
    LET read == StatusRead(node, vmid, statusResp)
        write == StatusWrite(node, vmid, what, writeResp)
        onError(cs, resp) ==
            Run(cs, Raised("RuntimeError", what \o " VM", resp.msg))
    IN  IF ~statusResp.ok THEN onError(<<read>>, statusResp)
        ELSE IF DictGet(statusResp.val, "status", None) = noop
        THEN Run(<<read>>, TextResult(noopText))
        ELSE IF ~writeResp.ok THEN onError(<<read, write>>, writeResp)
        ELSE Run(<<read, write>>, TextResult(doneText \o <<"Task ID", writeResp.val>>))

PowerOp(node, vmid, what, noop, noopText, doneText, statusResp, writeResp) ==
    LET read == StatusRead(node, vmid, statusResp)
        write == StatusWrite(node, vmid, what, writeResp)
        onError(cs, resp) ==
            IF MentionsMissing(resp)
            THEN Run(cs, Raised("ValueError", "vm_not_found", <<>>))
            ELSE Run(cs, HandleError(what \o " VM", resp))
    IN  IF ~statusResp.ok THEN onError(<<read>>, statusResp)
        ELSE IF DictGet(statusResp.val, "status", None) = noop
        THEN Run(<<read>>, TextResult(noopText))
        ELSE IF ~writeResp.ok THEN onError(<<read, write>>, writeResp)
        ELSE Run(<<read, write>>, TextResult(doneText \o <<"Task ID", writeResp.val>>))

\* start_vm without the check of the current status
start_vm_always_starts(node, vmid, statusResp, writeResp) ==
    PowerOp(node, vmid, "start", "no such status",
            <<"VM", vmid, "is already running">>,
            <<"VM", vmid, "start initiated successfully">>, statusResp, writeResp)

start_vm(node, vmid, statusResp, writeResp) ==
    PowerOp(node, vmid, "start", "running",
            <<"VM", vmid, "is already running">>,
            <<"VM", vmid, "start initiated successfully">>, statusResp, writeResp)

\* stop_vm short-circuiting on the wrong status
stop_vm_checks_running(node, vmid, statusResp, writeResp) ==
    PowerOp(node, vmid, "stop", "running",
            <<"VM", vmid, "is already stopped">>,
            <<"VM", vmid, "stop initiated successfully">>, statusResp, writeResp)

stop_vm(node, vmid, statusResp, writeResp) ==
    PowerOp(node, vmid, "stop", "stopped",
            <<"VM", vmid, "is already stopped">>,
            <<"VM", vmid, "stop initiated successfully">>, statusResp, writeResp)

shutdown_vm(node, vmid, statusResp, writeResp) ==
    PowerOp(node, vmid, "shutdown", "stopped",
            <<"VM", vmid, "is already stopped">>,
            <<"VM", vmid, "graceful shutdown initiated">>, statusResp, writeResp)

\* a stopped VM gets a warning text as a normal result, nothing is raised
reset_vm(node, vmid, statusResp, writeResp) ==
    PowerOp(node, vmid, "reset", "stopped",
            <<"Cannot reset VM", vmid, "VM is currently stopped", "Use start_vm to start it first">>,
            <<"VM", vmid, "reset initiated successfully">>, statusResp, writeResp)

(***************************************************************************)
(* VM deletion (tools/vm.py).  The status read has its own try: a missing  *)
(* VM becomes ValueError, any other failure is re-raised and reaches the   *)
(* outer handler.  ValueError leaves delete_vm as raised; every other      *)
(* exception goes through _handle_error.                                   *)
(***************************************************************************)
\* the status test taking every status but "stopped" for running
IsRunning_unless_stopped(current_status) == current_status # "stopped"

\* current_status == "running"
IsRunning(current_status) == current_status = "running"

\* a stop call whose exception is swallowed
StopRaised_swallowed(stopResp) == FALSE

\* status.stop.post() raised: nothing catches it before the outer handlers
StopRaised(stopResp) == ~stopResp.ok

\* delete_vm deleting a running VM without stopping it first
delete_vm_skips_stop(node, vmid, force, statusResp, stopResp, deleteResp) ==
    LET read == StatusRead(node, vmid, statusResp)
        stop == StatusWrite(node, vmid, "stop", stopResp)
        delete == Did(FacadeCall("DELETE", VmPath(node, vmid, <<>>), <<>>), deleteResp)
        vm_name == DictGet(statusResp.val, "name", "VM-" \o vmid)
        \* the delete call and the summary built on the text so far
        finish(cs, text) ==
            IF ~deleteResp.ok
            THEN Run(cs \o <<delete>>, HandleError("delete VM", deleteResp))
            ELSE Run(cs \o <<delete>>,
                     TextResult(text \o <<"VM", vmid, vm_name, "deletion initiated successfully",
                                          "Task ID", deleteResp.val>>))
    IN  IF ~statusResp.ok
        THEN IF MentionsMissing(statusResp)
             THEN Run(<<read>>, Raised("ValueError", "vm_not_found", <<>>))
             ELSE Run(<<read>>, HandleError("delete VM", statusResp))
        ELSE IF DictGet(statusResp.val, "status", None) = "running"
        THEN IF ~force
             THEN Run(<<read>>, Raised("ValueError", "vm_running", <<>>))
             ELSE finish(<<read>>, <<"Stopping VM", vmid, vm_name, "before deletion">>)
        ELSE finish(<<read>>, <<"Deleting VM", vmid, vm_name>>)

\* delete_vm treating every call as forced
delete_vm_ignores_force(node, vmid, force, statusResp, stopResp, deleteResp) ==
    LET read == StatusRead(node, vmid, statusResp)
        stop == StatusWrite(node, vmid, "stop", stopResp)
        delete == Did(FacadeCall("DELETE", VmPath(node, vmid, <<>>), <<>>), deleteResp)
        vm_name == DictGet(statusResp.val, "name", "VM-" \o vmid)
        \* the delete call and the summary built on the text so far
        finish(cs, text) ==
            IF ~deleteResp.ok
            THEN Run(cs \o <<delete>>, HandleError("delete VM", deleteResp))
            ELSE Run(cs \o <<delete>>,
                     TextResult(text \o <<"VM", vmid, vm_name, "deletion initiated successfully",
                                          "Task ID", deleteResp.val>>))
    IN  IF ~statusResp.ok
        THEN IF MentionsMissing(statusResp)
             THEN Run(<<read>>, Raised("ValueError", "vm_not_found", <<>>))
             ELSE Run(<<read>>, HandleError("delete VM", statusResp))
        ELSE IF DictGet(statusResp.val, "status", None) = "running"
        THEN IF FALSE
             THEN Run(<<read>>, Raised("ValueError", "vm_running", <<>>))
             ELSE IF ~stopResp.ok
             THEN Run(<<read, stop>>, HandleError("delete VM", stopResp))
             ELSE finish(<<read, stop>>, <<"Stopping VM", vmid, vm_name, "before deletion">>)
        ELSE finish(<<read>>, <<"Deleting VM", vmid, vm_name>>)

delete_vm(node, vmid, force, statusResp, stopResp, deleteResp) ==
    LET read == StatusRead(node, vmid, statusResp)
        stop == StatusWrite(node, vmid, "stop", stopResp)
        delete == Did(FacadeCall("DELETE", VmPath(node, vmid, <<>>), <<>>), deleteResp)
        vm_name == DictGet(statusResp.val, "name", "VM-" \o vmid)
        \* the delete call and the summary built on the text so far
        finish(cs, text) ==
            IF ~deleteResp.ok
            THEN Run(cs \o <<delete>>, HandleError("delete VM", deleteResp))
            ELSE Run(cs \o <<delete>>,
                     TextResult(text \o <<"VM", vmid, vm_name, "deletion initiated successfully",
                                          "Task ID", deleteResp.val>>))
    IN  IF ~statusResp.ok
        THEN IF MentionsMissing(statusResp)
             THEN Run(<<read>>, Raised("ValueError", "vm_not_found", <<>>))
             ELSE Run(<<read>>, HandleError("delete VM", statusResp))
        ELSE IF IsRunning(DictGet(statusResp.val, "status", None))
        THEN IF ~force
             THEN Run(<<read>>, Raised("ValueError", "vm_running", <<>>))
             ELSE IF StopRaised(stopResp)
             THEN Run(<<read, stop>>, HandleError("delete VM", stopResp))
             ELSE finish(<<read, stop>>, <<"Stopping VM", vmid, vm_name, "before deletion">>)
        ELSE finish(<<read>>, <<"Deleting VM", vmid, vm_name>>)

(***************************************************************************)
(* Guest command execution (tools/console/manager.py execute_command,      *)
(* tools/vm.py execute_command).  What the console manager raises is a     *)
(* failure carrying the message of the exception.                          *)
(***************************************************************************)
StrFailedToExecute ==
    <<"F","a","i","l","e","d"," ","t","o"," ","e","x","e","c","u","t","e"," ","c","o","m","m","a","n","d",":"," ">>
StrApiCallFailed == <<"A","P","I"," ","c","a","l","l"," ","f","a","i","l","e","d",":"," ">>
\* str(KeyError("status"))
MsgKeyStatus == <<"'","s","t","a","t","u","s","'">>
\* f"VM {vmid} not found on node {node}"
MsgVmNotFound(node, vmid) ==
    <<"V","M"," ", vmid>> \o <<" ","n","o","t"," ","f","o","u","n","d"," ","o","n"," ","n","o","d","e"," ">> \o <<node>>
\* f"VM {vmid} on node {node} is not running"
MsgVmNotRunning(node, vmid) ==
    <<"V","M"," ", vmid>> \o <<" ","o","n"," ","n","o","d","e"," ">> \o <<node>>
        \o <<" ","i","s"," ","n","o","t"," ","r","u","n","n","i","n","g">>

\* raise exc(message) leaving the console manager
ConsoleRaise(exc, message) == [ok |-> FALSE, msg |-> message, exc |-> exc]

\* the status test that lets every status through
NotRunning_never(vm_status) == FALSE

\* vm_status["status"] != "running"
NotRunning(vm_status) == vm_status.status # "running"

\* the outer "except Exception" of the console manager
ConsoleError(node, vmid, message) ==
    IF Contains(StrNotFound, Lower(message))
    THEN ConsoleRaise("ValueError", MsgVmNotFound(node, vmid))
    ELSE ConsoleRaise("RuntimeError", StrFailedToExecute \o message)

\* VMConsoleManager.execute_command: the Facade calls it issues and the dict
\* it returns or the exception it raises
console_execute_command(node, vmid, command, statusResp, execResp) ==
    LET read == StatusRead(node, vmid, statusResp)
        exec == Did(FacadeCall("POST", VmPath(node, vmid, <<"agent", "exec">>),
                               [command |-> command]), execResp)
        exec_result == execResp.val
    IN  IF ~statusResp.ok
        THEN Run(<<read>>, ConsoleError(node, vmid, statusResp.msg))
        ELSE IF "status" \notin DOMAIN statusResp.val
        THEN Run(<<read>>, ConsoleError(node, vmid, MsgKeyStatus))
        ELSE IF NotRunning(statusResp.val)
        THEN Run(<<read>>, ConsoleRaise("ValueError", MsgVmNotRunning(node, vmid)))
        ELSE IF ~execResp.ok
        THEN Run(<<read, exec>>,
                 ConsoleError(node, vmid,
                              StrApiCallFailed \o StrFailedToExecute \o execResp.msg))
        ELSE Run(<<read, exec>>,
                 RespOk([error |-> DictGet(exec_result, "err", ""),
                         success |-> TRUE,
                         output |-> DictGet(exec_result, "out", ""),
                         exit_code |-> DictGet(exec_result, "exitcode", 0)]))

\* VMTools.execute_command
execute_command(node, vmid, command, statusResp, execResp) ==
    LET r == console_execute_command(node, vmid, command, statusResp, execResp)
    IN  IF r.result.ok
        THEN Run(r.calls, JsonResult(r.result.val))
        ELSE Run(r.calls, HandleError("execute command on VM " \o vmid, r.result))

CommandArgs == {"uname -a"}
\* answers of POST nodes/{node}/qemu/{vmid}/agent/exec
ExecResps ==
    {RespOk([err |-> "", out |-> "Linux", exitcode |-> 0]), RespOk([pid |-> 7])}
        \cup FacadeFailures

(***************************************************************************)
(* Generic passthrough (tools/generic.py, server.py ProxmoxRequest).       *)
(* Methods and paths are character sequences.  An optional dict is <<>>    *)
(* for None and <<d>> for the dict d.                                      *)
(***************************************************************************)
ApiPrefix == <<"a","p","i","2","/","j","s","o","n","/">>

MGet == <<"G","E","T">>
MPost == <<"P","O","S","T">>
MPut == <<"P","U","T">>
MDelete == <<"D","E","L","E","T","E">>
MPatch == <<"P","A","T","C","H">>
MGetLower == <<"g","e","t">>

\* str.upper()
Upper(s) ==
    [i \in 1..Len(s) |->
        IF \E c \in DOMAIN UpperToLower : UpperToLower[c] = s[i]
        THEN CHOOSE c \in DOMAIN UpperToLower : UpperToLower[c] = s[i]
        ELSE s[i]]

\* the path normalisation stripping one leading slash only
NormalizePath_one_slash(path) ==
    LET norm == IF path # <<>> /\ Head(path) = "/" THEN Tail(path) ELSE path
    IN  IF StartsWith(norm, ApiPrefix)
        THEN SubSeq(norm, Len(ApiPrefix) + 1, Len(norm))
        ELSE norm

\* norm: path.lstrip("/") without one leading "api2/json/"
NormalizePath(path) ==
    LET norm == Lstrip(path)
    IN  IF StartsWith(norm, ApiPrefix)
        THEN SubSeq(norm, Len(ApiPrefix) + 1, Len(norm))
        ELSE norm

\* x or {}
OrEmptyDict(o) == IF o = <<>> THEN <<>> ELSE o[1]

\* the messages of the two ValueErrors proxmox_request raises in its own try
MsgPathEmpty ==
    <<"p","a","t","h"," ","m","u","s","t"," ","b","e"," ","a"," ","n","o","n","-","e","m","p","t","y"," ","s","t","r","i","n","g">>
MsgBadMethod ==
    <<"U","n","s","u","p","p","o","r","t","e","d"," ","m","e","t","h","o","d","."," ","U","s","e"," ","G","E","T",","," ","P","O","S","T",","," ","P","U","T"," ","o","r"," ","D","E","L","E","T","E">>

\* a path that is no string: the JSON number 7, tagged so that it is told
\* apart from every sequence of characters
NonStrPath == <<"int", 7>>

\* isinstance(path, str)
IsStr(path) == ~(Len(path) = 2 /\ path[1] = "int")

\* GenericTools.proxmox_request
proxmox_request(method, path, params, data, resp) ==
    IF ~IsStr(path) \/ path = <<>>
    THEN Run(<<>>, HandleError("generic request", RespFail(MsgPathEmpty)))
    ELSE LET norm == NormalizePath(path)
             method_upper == Upper(method)
             p == OrEmptyDict(params)
             d == OrEmptyDict(data)
             write_payload == DictMerge(p, d)
             issue(verb, payload) ==
                 LET c == Did(FacadeCall(verb, norm, payload), resp)
                 IN  IF resp.ok
                     THEN Run(<<c>>, JsonResult(resp.val))
                     ELSE Run(<<c>>, HandleError("generic request", resp))
         IN  IF method_upper = MGet THEN issue("GET", p)
             ELSE IF method_upper = MPost THEN issue("POST", write_payload)
             ELSE IF method_upper = MPut THEN issue("PUT", write_payload)
             ELSE IF method_upper = MDelete THEN issue("DELETE", p)
             ELSE Run(<<>>, HandleError("generic request", RespFail(MsgBadMethod)))

\* ProxmoxRequest.method: Literal["GET", "POST", "PUT", "DELETE"]
MethodLiteral == {MGet, MPost, MPut, MDelete}

\* the dispatcher closure calling the tool with whatever it is given
dispatch_proxmox_request_unvalidated(method, path, params, data, resp) ==
    proxmox_request(method, path, params, data, resp)

\* the dispatcher closure: the payload is validated against ProxmoxRequest
\* (method: Literal[...], path: str) before the tool is called
dispatch_proxmox_request(method, path, params, data, resp) ==
    IF method \notin MethodLiteral
    THEN Run(<<>>, Raised("ValidationError", "method", <<>>))
    ELSE IF ~IsStr(path)
    THEN Run(<<>>, Raised("ValidationError", "path", <<>>))
    ELSE proxmox_request(method, path, params, data, resp)

\* the caller's paths: k slashes, the API prefix or not, and a rest
Slashes(k) == [i \in 1..k |-> "/"]
PathRests ==
    { <<>>,
      <<"n","o","d","e","s">>,
      <<"/","n">>,
      <<"a","p","i","2","/","j","s","o","n">>,
      ApiPrefix \o <<"n">> }
ComposePath(k, withPrefix, rest) ==
    Slashes(k) \o (IF withPrefix THEN ApiPrefix ELSE <<>>) \o rest
\* rest is what follows the slashes and the prefix: without the prefix it
\* starts neither with a slash nor with the prefix
IsDecomposition(withPrefix, rest) ==
    withPrefix \/ ~(StartsWith(rest, <<"/">>) \/ StartsWith(rest, ApiPrefix))
CallerPaths ==
    { ComposePath(k, w, r) : k \in 0..MaxSlashes,
                             w \in BOOLEAN,
                             r \in PathRests }
        \cup {NonStrPath}

CallerMethods == MethodLiteral \cup {MPatch, MGetLower}

\* the params and data bags of a call
ParamBags ==
    { <<>>, << <<>> >>, << [a |-> 1] >>, << [a |-> 2] >>, << [b |-> 1] >>,
      << [a |-> 1, b |-> 2] >> }

\* what a passthrough call answers with
PassResps == {RespOk([data |-> "x"]), RespOk([data |-> "y"])} \cup FacadeFailures

(***************************************************************************)
(* VM creation (tools/vm.py create_vm, server.py create_vm).               *)
(***************************************************************************)
StrImages == <<"i","m","a","g","e","s">>
StrIso == <<"i","s","o">>

\* the content test letting every storage through
SupportsImages_always(s) == TRUE

\* "images" in s.get("content", "")
SupportsImages(s) == Contains(StrImages, DictGet(s, "content", <<>>))

\* storage_info[name]: a later entry of the listing replaces an earlier one
StorageInfo(storage_list, name) ==
    LET idx == {i \in 1..Len(storage_list) : storage_list[i].storage = name}
    IN  storage_list[CHOOSE i \in idx : \A j \in idx : j <= i]

\* for s in storage_list: if s["storage"] is one of names and it supports
\* images: storage = s["storage"]; break
FirstStorage(storage_list, names) ==
    LET idx == {i \in 1..Len(storage_list) :
                   storage_list[i].storage \in names /\ SupportsImages(storage_list[i])}
    IN  IF idx = {} THEN None
        ELSE storage_list[CHOOSE i \in idx : \A j \in idx : i <= j].storage

\* the auto-detection without the two preferred names
DetectStorage_first_with_images(storage_list) ==
    FirstStorage(storage_list, {storage_list[i].storage : i \in 1..Len(storage_list)})

\* the auto-detection: local-lvm, then vm-storage, then the first with images
DetectStorage(storage_list) ==
    LET first == FirstStorage(storage_list, {"local-lvm"})
        second == FirstStorage(storage_list, {"vm-storage"})
        third == FirstStorage(storage_list,
                     {storage_list[i].storage : i \in 1..Len(storage_list)})
    IN  IF first # None THEN first
        ELSE IF second # None THEN second
        ELSE third

\* the message of the existence error worded as a missing VM
MsgAlreadyExists_says_missing(node, vmid) ==
    <<"V","M"," ", vmid, " ","d","o","e","s"," ","n","o","t"," ","e","x","i","s","t",
      " ","o","n"," ","n","o","d","e"," ", node>>

\* f"VM {vmid} already exists on node {node}"
MsgAlreadyExists(node, vmid) ==
    <<"V","M"," ", vmid, " ","a","l","r","e","a","d","y"," ","e","x","i","s","t","s",
      " ","o","n"," ","n","o","d","e"," ", node>>

\* every storage type given the raw format
DiskFormat_always_raw(storage_type) == "raw"

\* disk_format: raw for lvm and lvmthin, qcow2 for dir, nfs and cifs, raw for
\* any other type
DiskFormat(storage_type) ==
    IF storage_type \in {"lvm", "lvmthin"} THEN "raw"
    ELSE IF storage_type \in {"dir", "nfs", "cifs"} THEN "qcow2"
    ELSE "raw"

create_vm(node, vmid, name, cpus, memory, disk_size, storage, ostype, probeResp, listResp, createResp) ==
    LET probe == Did(FacadeCall("GET", VmPath(node, vmid, <<"config">>), <<>>), probeResp)
        list == Did(FacadeCall("GET", <<"nodes", node, "storage">>, <<>>), listResp)
        \* the existence probe: the error of the inner try, or None to go on
        probeError ==
            IF probeResp.ok
            THEN IF Contains(StrDoesNotExist, Lower(MsgAlreadyExists(node, vmid)))
                 THEN None
                 ELSE "exists"
            ELSE IF Contains(StrDoesNotExist, Lower(probeResp.msg)) THEN None ELSE "facade"
        storage_list == listResp.val
        chosen == IF storage = None THEN DetectStorage(storage_list) ELSE storage
        known == \E i \in 1..Len(storage_list) : storage_list[i].storage = chosen
        info == StorageInfo(storage_list, chosen)
        storage_type == info.type
        fileBased == storage_type \in {"dir", "nfs", "cifs"}
        disk_format == DiskFormat(storage_type)
        vm_config_storage ==
            IF fileBased
            THEN [scsi0 |-> <<chosen, disk_size, disk_format>>, ide2 |-> <<chosen, "cloudinit">>]
            ELSE [scsi0 |-> <<chosen, disk_size, disk_format>>]
        os == IF ostype = None THEN "l26" ELSE ostype
        vm_config ==
            DictMerge([name |-> name, vmid |-> vmid, agent |-> "1", memory |-> memory,
                       ostype |-> os, cores |-> cpus, scsihw |-> "virtio-scsi-pci",
                       boot |-> "order=scsi0", vga |-> "std", net0 |-> "virtio,bridge=vmbr0"],
                      vm_config_storage)
        create == Did(FacadeCall("POST", <<"nodes", node, "qemu">>, vm_config), createResp)
    IN  IF probeError = "exists"
        THEN Run(<<probe>>, Raised("ValueError", "vm_exists", <<>>))
        ELSE IF probeError = "facade"
        THEN Run(<<probe>>, HandleError("create VM " \o vmid, probeResp))
        ELSE IF ~listResp.ok
        THEN Run(<<probe, list>>, HandleError("create VM " \o vmid, listResp))
        ELSE IF chosen = None
        THEN Run(<<probe, list>>, Raised("ValueError", "no_suitable_storage", <<>>))
        ELSE IF ~known
        THEN Run(<<probe, list>>, Raised("ValueError", "storage_not_on_node", <<>>))
        ELSE IF ~SupportsImages(info)
        THEN Run(<<probe, list>>, Raised("ValueError", "storage_without_images", <<>>))
        ELSE IF ~createResp.ok
        THEN Run(<<probe, list, create>>, HandleError("create VM " \o vmid, createResp))
        ELSE Run(<<probe, list, create>>,
                 [outcome |-> "ok", form |-> "summary",
                  body |-> [name |-> name, node |-> node, vmid |-> vmid, storage |-> chosen,
                            storage_type |-> storage_type,
                            memory |-> memory, disk_size |-> disk_size, ostype |-> os,
                            disk_format |-> disk_format, cores |-> cpus,
                            lvm_note |-> storage_type \in {"lvm", "lvmthin"},
                            task |-> createResp.val]])

\* the declared fields with the upper end of cpus left undeclared
ValidCreateVm_cpus_unbounded(cpus, memory, disk_size) ==
    /\ cpus >= 1
    /\ memory >= 512 /\ memory <= 131072
    /\ disk_size >= 5 /\ disk_size <= 1000

\* Field(ge=1, le=32), Field(ge=512, le=131072), Field(ge=5, le=1000)
ValidCreateVm(cpus, memory, disk_size) ==
    /\ cpus >= 1 /\ cpus <= 32
    /\ memory >= 512 /\ memory <= 131072
    /\ disk_size >= 5 /\ disk_size <= 1000

\* the dispatcher closure: the arguments are validated against the declared
\* fields before the tool is called
dispatch_create_vm(node, vmid, name, cpus, memory, disk_size, storage, ostype, probeResp, listResp, createResp) ==
    IF ~ValidCreateVm(cpus, memory, disk_size)
    THEN Run(<<>>, Raised("ValidationError", "arguments", <<>>))
    ELSE create_vm(node, vmid, name, cpus, memory, disk_size, storage, ostype,
                   probeResp, listResp, createResp)

\* the entries of GET nodes/{node}/storage
StorageEntries ==
    { [content |-> StrImages, storage |-> "local-lvm", type |-> "lvmthin"],
      [content |-> StrIso, storage |-> "local-lvm", type |-> "lvmthin"],
      [content |-> StrImages, storage |-> "vm-storage", type |-> "dir"],
      [content |-> StrIso \o <<",">> \o StrImages, storage |-> "local", type |-> "nfs"],
      [content |-> StrImages, storage |-> "san", type |-> "lvm"],
      [content |-> StrImages, storage |-> "share", type |-> "cifs"],
      [storage |-> "backup", type |-> "nfs"],
      [content |-> StrImages, storage |-> "tank", type |-> "zfspool"] }
\* a listing names each storage once
StorageLists ==
    {l \in Arrangements(StorageEntries, MaxStorages) :
        \A i, j \in 1..Len(l) : l[i].storage = l[j].storage => i = j}
StorageListResps == {RespOk(l) : l \in StorageLists} \cup {RespFail(MsgTimeout)}

\* answers of the existence probe GET nodes/{node}/qemu/{vmid}/config
ProbeResps == {RespOk([name |-> "web"])} \cup FacadeFailures

\* the numeric arguments of a create_vm call: the ends of each declared
\* range and their neighbours outside it
CpusArgs == {0, 1, 32, 33}
MemoryArgs == {511, 512, 131072, 131073}
DiskSizeArgs == {4, 5, 1000, 1001}
\* the triples (cpus, memory, disk_size) of a call: of those made of range
\* ends only, the one of the lower ends and the one of the upper ends
SizeArgs ==
    {t \in CpusArgs \X MemoryArgs \X DiskSizeArgs :
        (t[1] \in {1, 32} /\ t[2] \in {512, 131072} /\ t[3] \in {5, 1000}) =>
            t \in {<<1, 512, 5>>, <<32, 131072, 1000>>}}
StorageArgs == {None, "local-lvm", "local", "absent"}
OstypeArgs == {None, "win10"}

(***************************************************************************)
(* Container stop and restart (server.py stop_container,                   *)
(* restart_container).  The closures declare the range of timeout_seconds; *)
(* the tool behind them takes the selector in its node:id form and posts   *)
(* the status change of that container.                                    *)
(***************************************************************************)
CtPath(selector, tail) == <<"nodes", selector[1], "lxc", selector[2]>> \o tail

\* ContainerTools.stop_container
stop_container(selector, graceful, timeout_seconds, resp) ==
    LET what == IF graceful THEN "shutdown" ELSE "stop"
        c == Did(FacadeCall("POST", CtPath(selector, <<"status", what>>),
                            [timeout |-> timeout_seconds]), resp)
    IN  IF resp.ok
        THEN Run(<<c>>, TextResult(<<"CT", selector[2], what, resp.val>>))
        ELSE Run(<<c>>, HandleError("stop container", resp))

\* ContainerTools.restart_container
restart_container(selector, timeout_seconds, resp) ==
    LET c == Did(FacadeCall("POST", CtPath(selector, <<"status", "reboot">>),
                            [timeout |-> timeout_seconds]), resp)
    IN  IF resp.ok
        THEN Run(<<c>>, TextResult(<<"CT", selector[2], "reboot", resp.val>>))
        ELSE Run(<<c>>, HandleError("restart container", resp))

\* Field(ge=1, le=600)
ValidTimeout(timeout_seconds) ==
    timeout_seconds >= 1 /\ timeout_seconds <= 600

dispatch_stop_container(selector, graceful, timeout_seconds, resp) ==
    IF ~ValidTimeout(timeout_seconds)
    THEN Run(<<>>, Raised("ValidationError", "arguments", <<>>))
    ELSE stop_container(selector, graceful, timeout_seconds, resp)

dispatch_restart_container(selector, timeout_seconds, resp) ==
    IF ~ValidTimeout(timeout_seconds)
    THEN Run(<<>>, Raised("ValidationError", "arguments", <<>>))
    ELSE restart_container(selector, timeout_seconds, resp)

CtSelectors == {<<n, "200">> : n \in Nodes}
TimeoutArgs == {0, 1, 10, 600, 601}

(***************************************************************************)
(* The cluster-wide VM listing (tools/vm.py get_vms): one try around the   *)
(* node listing and the loop over the nodes; each node is asked for its    *)
(* VMs, and the entry of a VM is built from that listing alone.            *)
(***************************************************************************)
RECURSIVE Concat(_)
Concat(seqs) == IF seqs = <<>> THEN <<>> ELSE Head(seqs) \o Concat(Tail(seqs))

\* vm_info
VmInfo(node_name, vm) ==
    [status |-> DictGet(vm, "status", None), name |-> DictGet(vm, "name", None),
     node |-> node_name, vmid |-> vm.vmid, cpus |-> None,
     mem |-> DictGet(vm, "mem", None), maxmem |-> DictGet(vm, "maxmem", None)]

\* qemuResps[i] answers GET nodes/{node_name}/qemu for the i-th listed node
get_vms(nodesResp, qemuResps) ==
    LET listing == Did(FacadeCall("GET", <<"nodes">>, <<>>), nodesResp)
        nodes == nodesResp.val
        ask(i) == Did(FacadeCall("GET", <<"nodes", nodes[i].node, "qemu">>, <<>>),
                      qemuResps[i])
        failing == {i \in 1..Len(nodes) : ~qemuResps[i].ok}
        first == CHOOSE i \in failing : \A j \in failing : i <= j
        entries(i) == [k \in 1..Len(qemuResps[i].val) |->
                          VmInfo(nodes[i].node, qemuResps[i].val[k])]
    IN  IF ~nodesResp.ok
        THEN Run(<<listing>>, HandleError("get VMs", nodesResp))
        ELSE IF failing # {}
        THEN Run(<<listing>> \o [i \in 1..first |-> ask(i)],
                 HandleError("get VMs", qemuResps[first]))
        ELSE Run(<<listing>> \o [i \in 1..Len(nodes) |-> ask(i)],
                 JsonResult(Concat([i \in 1..Len(nodes) |-> entries(i)])))

\* the entries of GET nodes
NodeEntries == {[status |-> "online", node |-> n] : n \in Nodes \cup {"pve3"}}
NodesResps == {RespOk(l) : l \in Arrangements(NodeEntries, MaxNodes)} \cup FacadeFailures

\* the entries of GET nodes/{node}/qemu
VmEntries ==
    { [status |-> "running", name |-> "web", vmid |-> "100", mem |-> 1, maxmem |-> 2],
      [status |-> "stopped", vmid |-> "101"],
      [name |-> "db", vmid |-> "102", mem |-> 0, maxmem |-> 4] }
QemuResps == {RespOk(l) : l \in Arrangements(VmEntries, MaxVmsPerNode)} \cup FacadeFailures

(***************************************************************************)
(* JSON.  A decoded value is tagged with its kind: an object is the        *)
(* sequence of its (key, value) members in their order, a string is the    *)
(* sequence of its characters.  json.dumps writes a value as a sequence    *)
(* of tokens (literals, numbers as digit strings, strings with their       *)
(* escapes, punctuation); json.loads reads such a sequence back.           *)
(***************************************************************************)
JNull == <<"null">>
JBool(b) == <<"bool", b>>
JNum(n) == <<"num", n>>
JStr(chars) == <<"str", chars>>
JArr(elems) == <<"arr", elems>>
JObj(members) == <<"obj", members>>

Lit(word) == <<"lit", word>>
Punct(mark) == <<"punct", mark>>

DigitChars == <<"0","1","2","3","4","5","6","7","8","9">>

\* str(n) for an int
RECURSIVE Digits(_)
Digits(n) ==
    IF n < 0 THEN <<"-">> \o Digits(0 - n)
    ELSE IF n < 10 THEN <<DigitChars[n + 1]>>
    ELSE Digits(n \div 10) \o <<DigitChars[(n % 10) + 1]>>

\* int(text)
RECURSIVE ParseDigits(_, _)
ParseDigits(text, acc) ==
    IF text = <<>> THEN acc
    ELSE IF Head(text) = "-" THEN 0 - ParseDigits(Tail(text), acc)
    ELSE ParseDigits(Tail(text),
                     10 * acc + (CHOOSE d \in 0..9 : DigitChars[d + 1] = Head(text)))

\* the string with its escapes left out
Escape_nothing(chars) == chars

\* the escapes of a string: the quote and the backslash get a backslash
RECURSIVE Escape(_)
Escape(chars) ==
    IF chars = <<>> THEN <<>>
    ELSE IF Head(chars) \in {"\"", "\\"}
    THEN <<"\\", Head(chars)>> \o Escape(Tail(chars))
    ELSE <<Head(chars)>> \o Escape(Tail(chars))

RECURSIVE Unescape(_)
Unescape(chars) ==
    IF chars = <<>> THEN <<>>
    ELSE IF Head(chars) = "\\"
    THEN IF Len(chars) = 1 THEN <<>>
         ELSE <<chars[2]>> \o Unescape(Tail(Tail(chars)))
    ELSE <<Head(chars)>> \o Unescape(Tail(chars))

RECURSIVE Dumps(_)
RECURSIVE DumpElems(_)
RECURSIVE DumpMembers(_)
RECURSIVE ParseValue(_)
RECURSIVE ParseElems(_, _)
RECURSIVE ParseMembers(_, _)

\* json.dumps(v): members and elements in their order, no key sorting
Dumps(v) ==
    CASE v[1] = "null" -> <<Lit("null")>>
      [] v[1] = "bool" -> <<Lit(IF v[2] THEN "true" ELSE "false")>>
      [] v[1] = "num" -> << <<"num", Digits(v[2])>> >>
      [] v[1] = "str" -> << <<"str", Escape(v[2])>> >>
      [] v[1] = "arr" -> <<Punct("[")>> \o DumpElems(v[2]) \o <<Punct("]")>>
      [] v[1] = "obj" -> <<Punct("{")>> \o DumpMembers(v[2]) \o <<Punct("}")>>

DumpElems(elems) ==
    IF Len(elems) = 0 THEN <<>>
    ELSE Dumps(Head(elems))
            \o (IF Len(elems) > 1 THEN <<Punct(",")>> ELSE <<>>)
            \o DumpElems(Tail(elems))

DumpMembers(members) ==
    IF Len(members) = 0 THEN <<>>
    ELSE << <<"str", Escape(Head(members)[1])>>, Punct(":") >>
            \o Dumps(Head(members)[2])
            \o (IF Len(members) > 1 THEN <<Punct(",")>> ELSE <<>>)
            \o DumpMembers(Tail(members))

\* the value at the head of the tokens and the tokens after it
ParseValue(tokens) ==
    LET h == Head(tokens)
    IN  CASE h[1] = "lit" ->
                <<(IF h[2] = "null" THEN JNull ELSE JBool(h[2] = "true")), Tail(tokens)>>
          [] h[1] = "num" -> <<JNum(ParseDigits(h[2], 0)), Tail(tokens)>>
          [] h[1] = "str" -> <<JStr(Unescape(h[2])), Tail(tokens)>>
          [] h[1] = "punct" ->
                IF h[2] = "[" THEN ParseElems(Tail(tokens), <<>>)
                ELSE ParseMembers(Tail(tokens), <<>>)

ParseElems(tokens, acc) ==
    IF Head(tokens) = Punct("]") THEN <<JArr(acc), Tail(tokens)>>
    ELSE LET rest == IF Head(tokens) = Punct(",") THEN Tail(tokens) ELSE tokens
             r == ParseValue(rest)
         IN  ParseElems(r[2], Append(acc, r[1]))

\* a key met again replaces the value of the member it names
ParseMembers(tokens, acc) ==
    IF Head(tokens) = Punct("}") THEN <<JObj(acc), Tail(tokens)>>
    ELSE LET rest == IF Head(tokens) = Punct(",") THEN Tail(tokens) ELSE tokens
             key == Unescape(rest[1][2])
             r == ParseValue(Tail(Tail(rest)))
             seen == {i \in 1..Len(acc) : acc[i][1] = key}
         IN  ParseMembers(r[2],
                 IF seen = {} THEN Append(acc, <<key, r[1]>>)
                 ELSE [i \in 1..Len(acc) |-> IF i \in seen THEN <<key, r[1]>> ELSE acc[i]])

\* json.loads(text)
Loads(tokens) == ParseValue(tokens)[1]

\* return [Content(type="text", text=json.dumps(v))] for a decoded value
JsonBlock(v) == [outcome |-> "ok", form |-> "json", body |-> Dumps(v)]

\* the decoded values a read answers with
JsonStrings == {<<>>, <<"a">>, <<"\"", "\\">>}
JsonScalars ==
    {JNull, JBool(TRUE), JBool(FALSE), JNum(0), JNum(42), JNum(0 - 7)}
        \cup {JStr(chars) : chars \in JsonStrings}
JsonKeys == {<<"id">>, <<"\"">>}
JsonObjects ==
    {JObj([i \in 1..Len(keys) |-> <<keys[i], vals[i]>>]) :
        <<keys, vals>> \in UNION {{<<ks, vs>> : vs \in [1..Len(ks) -> JsonScalars]} :
                                     ks \in Arrangements(JsonKeys, MaxJsonLen)}}
JsonLists == {JArr(elems) : elems \in UNION {[1..n -> JsonScalars] : n \in 0..MaxJsonLen}}
JsonRows ==
    {JObj(<< <<<<"id">>, JNum(0)>>, <<<<"\"">>, JStr(<<"a">>)>> >>),
     JObj(<< <<<<"\"">>, JStr(<<"a">>)>>, <<<<"id">>, JNum(0)>> >>),
     JObj(<<>>)}
JsonTables == {JArr(rows) : rows \in UNION {[1..n -> JsonRows] : n \in 0..MaxJsonLen}}
JsonValues == JsonScalars \cup JsonObjects \cup JsonLists \cup JsonTables

(***************************************************************************)
(* The thin wrappers of the catalog: one Facade call whose decoded answer  *)
(* is returned as JSON.  The node and storage tools make the call inside   *)
(* try/except and hand a failure to _handle_error; the access, admin,      *)
(* backup, Ceph, firewall, HA, pool, replication and SDN tools make it     *)
(* bare.                                                                   *)
(***************************************************************************)
StrTask == <<"t","a","s","k">>

\* return [Content(type="text", text=json.dumps({"task": result}))]
TaskBlock(r) == JsonBlock(JObj(<< <<StrTask, r>> >>))

\* int(bool(flag)) answering 1 whatever the flag
IntOfBool_always_one(flag) == 1

\* int(bool(flag))
IntOfBool(flag) == IF flag THEN 1 ELSE 0

\* try: result = call; return json.dumps(result)
\* except Exception as e: self._handle_error(operation, e)
Tried(operation, c, resp) ==
    Run(<<Did(c, resp)>>,
        IF resp.ok THEN JsonBlock(resp.val) ELSE HandleError(operation, resp))

\* result = call; return json.dumps(result)
Bare(c, resp) ==
    Run(<<Did(c, resp)>>, IF resp.ok THEN JsonBlock(resp.val) ELSE RawFacade(resp))

\* tools/node.py, tools/storage.py
get_nodes(resp) == Tried("get nodes", FacadeCall("GET", <<"nodes">>, <<>>), resp)
get_storage(resp) == Tried("get storage", FacadeCall("GET", <<"storage">>, <<>>), resp)

\* tools/access.py
list_users(resp) == Bare(FacadeCall("GET", <<"access", "users">>, <<>>), resp)
delete_user(user, resp) ==
    Bare(FacadeCall("DELETE", <<"access", "users", user>>, <<>>), resp)

\* tools/admin.py
list_services(node, resp) ==
    Bare(FacadeCall("GET", <<"nodes", node, "services">>, <<>>), resp)

\* tools/backups.py
vzdump(node, params, resp) ==
    LET c == Did(FacadeCall("POST", <<"nodes", node, "vzdump">>, OrEmptyDict(params)), resp)
    IN  Run(<<c>>, IF resp.ok THEN TaskBlock(resp.val) ELSE RawFacade(resp))

\* tools/ceph.py
ceph_status(node, resp) ==
    Bare(FacadeCall("GET", <<"nodes", node, "ceph", "status">>, <<>>), resp)

\* tools/firewall.py
list_dc_firewall_rules(resp) ==
    Bare(FacadeCall("GET", <<"cluster", "firewall", "rules">>, <<>>), resp)

\* tools/ha.py
ha_list_groups(resp) ==
    Bare(FacadeCall("GET", <<"cluster", "ha", "groups">>, <<>>), resp)

\* tools/pools.py
delete_pool(poolid, resp) ==
    Bare(FacadeCall("DELETE", <<"pools", poolid>>, <<>>), resp)

\* tools/replication.py
replication_list_jobs(resp) ==
    Bare(FacadeCall("GET", <<"cluster", "replication">>, <<>>), resp)

\* tools/sdn.py
sdn_list_zones(resp) ==
    Bare(FacadeCall("GET", <<"cluster", "sdn", "zones">>, <<>>), resp)

(***************************************************************************)
(* Writes with optional parameters.  An optional argument is <<>> for      *)
(* None and <<v>> for a value; a string value is the sequence of its       *)
(* characters, so << <<>> >> is the empty string.                          *)
(***************************************************************************)
\* if v is not None: payload[key] = entry's value
PutIfNotNone(payload, v, entry) ==
    IF v # <<>> THEN DictMerge(payload, entry) ELSE payload

\* if v: payload[key] = entry's value, for a string v
PutIfTruthy(payload, v, entry) ==
    IF v # <<>> /\ v[1] # <<>> THEN DictMerge(payload, entry) ELSE payload

\* tools/vm.py get_vm_status
get_vm_status(node, vmid, resp) ==
    Tried("get VM " \o vmid \o " status on node " \o node,
          FacadeCall("GET", VmPath(node, vmid, <<"status", "current">>), <<>>), resp)

\* tools/vm.py create_vm_snapshot
create_vm_snapshot(node, vmid, snapname, vmstate, description, resp) ==
    LET p1 == [snapname |-> snapname]
        p2 == PutIfNotNone(p1, vmstate, [vmstate |-> IntOfBool(vmstate[1])])
        payload == PutIfNotNone(p2, description, [description |-> description[1]])
        c == FacadeCall("POST", VmPath(node, vmid, <<"snapshot">>), payload)
    IN  Run(<<Did(c, resp)>>,
            IF resp.ok THEN TaskBlock(resp.val)
            ELSE HandleError("create snapshot for VM " \o vmid \o " on node " \o node, resp))

\* tools/vm.py clone_vm
clone_vm(node, vmid, target, newid, name, full, storage, resp) ==
    LET p1 == PutIfNotNone(<<>>, target, [target |-> target[1]])
        p2 == PutIfNotNone(p1, newid, [newid |-> newid[1]])
        p3 == PutIfNotNone(p2, name, [name |-> name[1]])
        p4 == PutIfNotNone(p3, full, [full |-> IntOfBool(full[1])])
        payload == PutIfNotNone(p4, storage, [storage |-> storage[1]])
        c == FacadeCall("POST", VmPath(node, vmid, <<"clone">>), payload)
    IN  Run(<<Did(c, resp)>>,
            IF resp.ok THEN TaskBlock(resp.val)
            ELSE HandleError("clone VM " \o vmid \o " on node " \o node, resp))

\* tools/vm.py migrate_vm
migrate_vm(node, vmid, target, online, resp) ==
    LET payload == PutIfNotNone([target |-> target], online, [online |-> IntOfBool(online[1])])
        c == FacadeCall("POST", VmPath(node, vmid, <<"migrate">>), payload)
    IN  Run(<<Did(c, resp)>>,
            IF resp.ok THEN TaskBlock(resp.val)
            ELSE HandleError("migrate VM " \o vmid \o " from node " \o node \o " to " \o target, resp))

\* tools/access.py create_user
create_user(user, password, comment, expire, enable, resp) ==
    LET p1 == [userid |-> user]
        p2 == PutIfNotNone(p1, password, [password |-> password[1]])
        p3 == PutIfNotNone(p2, comment, [comment |-> comment[1]])
        p4 == PutIfNotNone(p3, expire, [expire |-> expire[1]])
        payload == PutIfNotNone(p4, enable, [enable |-> IntOfBool(enable[1])])
    IN  Bare(FacadeCall("POST", <<"access", "users">>, payload), resp)

\* tools/access.py update_user: put(**(changes or {}))
update_user(user, changes, resp) ==
    Bare(FacadeCall("PUT", <<"access", "users", user>>, changes), resp)

\* tools/access.py set_acl
set_acl(path, roles, users, groups, propagate, delete, resp) ==
    LET p1 == [path |-> path]
        p2 == PutIfNotNone(p1, roles, [roles |-> roles[1]])
        p3 == PutIfNotNone(p2, users, [users |-> users[1]])
        p4 == PutIfNotNone(p3, groups, [groups |-> groups[1]])
        p5 == PutIfNotNone(p4, propagate, [propagate |-> IntOfBool(propagate[1])])
        payload == PutIfNotNone(p5, delete, [delete |-> IntOfBool(delete[1])])
    IN  Bare(FacadeCall("PUT", <<"access", "acl">>, payload), resp)

\* tools/pools.py create_pool
create_pool(poolid, comment, resp) ==
    LET payload == PutIfTruthy([poolid |-> poolid], comment, [comment |-> comment[1]])
    IN  Bare(FacadeCall("POST", <<"pools">>, payload), resp)

\* tools/admin.py service_action: the action names the sub-resource the
\* POST goes to, whatever the action is
service_action(node, service, action, resp) ==
    LET endpoint == <<"nodes", node, "services", service, action>>
        c == FacadeCall("POST", endpoint, <<>>)
    IN  Run(<<Did(c, resp)>>, IF resp.ok THEN TaskBlock(resp.val) ELSE RawFacade(resp))

\* the optional arguments the callers pass
OptBools == {<<>>, <<TRUE>>, <<FALSE>>}
OptTexts == {<<>>, << <<>> >>, << <<"n","i","g","h","t","l","y">> >>}
OptNodes == {<<>>} \cup {<<n>> : n \in Nodes}
OptVmIds == {<<>>, <<"102">>}
OptStorages == {<<>>, <<"local-lvm">>}
OptExpires == {<<>>, <<0>>}
OptCsvs == {<<>>, <<"PVEAdmin">>}
SnapNames == {"s1"}
AclPaths == {"/vms/100"}
ServiceNames == {"pveproxy"}
\* the actions the description names, and one it does not
ListedActions == {"start", "stop", "restart"}
ServiceActions == ListedActions \cup {"reload"}

\* what the reads of the catalog answer with
ListResps == {RespOk(v) : v \in JsonValues} \cup FacadeFailures
\* what the writes of the catalog answer with: a task identifier, or null
\* where the hypervisor does the work at once
TaskResps == {RespOk(JStr(<<u>>)) : u \in Upids} \cup {RespOk(JNull)} \cup FacadeFailures
UserIds == {"root@pam", "ann@pve"}
PoolIds == {"dev", "prod"}

(***************************************************************************)
(* Start of the process (server.py main, ProxmoxMCPServer.__init__,        *)
(* config/loader.py load_config, core/logging.py setup_logging).           *)
(* An environment variable is <<>> when unset and <<v>> when set, v being  *)
(* the sequence of its characters.  A file path is the sequence of its     *)
(* segments, an absolute one starting with "/".  A message is a sequence   *)
(* of its parts.                                                           *)
(***************************************************************************)
\* os.getenv(name, default)
GetEnv(o, default) == IF o = <<>> THEN default ELSE o[1]

StrConfigVar == "PROXMOX_MCP_CONFIG"
MsgConfigVar == <<StrConfigVar, " environment variable must be set">>
MsgHostEmpty == <<"Proxmox host cannot be empty">>
MsgFailedToLoad == <<"Failed to load config: ">>
MsgInvalidJson == <<"Invalid JSON in config file: ">>
MsgNoSuchFile == <<"[Errno 2] No such file or directory">>
MsgValidation == <<"validation error for Config">>
MsgInvalidLiteral == <<"invalid literal for int() with base 10">>
MsgNoLevel == <<"module 'logging' has no attribute">>
MsgConnect == <<"Failed to connect to Proxmox">>
MsgHint ==
    <<"Error: No config file set. Either set ", StrConfigVar,
      " to a JSON config path, or set env vars PROXMOX_HOST, PROXMOX_USER, PROXMOX_TOKEN_NAME, PROXMOX_TOKEN_VALUE.">>
MsgShutdown == <<"Shutting down gracefully...">>
MsgFileLogOff == <<"Warning: file logging disabled">>
MsgStarting == <<"Starting MCP server...">>
MsgSignal == <<"Received signal to shutdown...">>
MsgServerError == <<"Server error: ">>
MsgToolLog == <<"Failed to execute command">>
Frame == <<"frame">>

StrInfo == <<"I","N","F","O">>
StrError == <<"E","R","R","O","R">>
LevelNames ==
    {<<"D","E","B","U","G">>, StrInfo, <<"W","A","R","N","I","N","G">>, StrError,
     <<"C","R","I","T","I","C","A","L">>}
\* logging.DEBUG .. logging.CRITICAL
LevelNo(name) ==
    CASE name = <<"D","E","B","U","G">> -> 10
      [] name = StrInfo -> 20
      [] name = <<"W","A","R","N","I","N","G">> -> 30
      [] name = StrError -> 40
      [] name = <<"C","R","I","T","I","C","A","L">> -> 50

\* int(text) succeeds
IsDecimal(text) ==
    text # <<>> /\ \A i \in 1..Len(text) : \E d \in 1..10 : DigitChars[d] = text[i]

\* Config(**data): the required fields are the host and the three of auth
ConfigOf(host, level, file) == [host |-> host, level |-> level, file |-> file]

\* "not v" for what os.getenv returned, taking the empty string for a value
Missing_only_unset(v) == v = <<>>

\* "not v" for what os.getenv returned: unset or empty
Missing(v) == v = <<>> \/ v[1] = <<>>

\* load_config: RespOk(config), or RespFail(message) for the ValueError raised
load_config(config_path, env) ==
    IF Missing(config_path)
    THEN IF ~IsDecimal(GetEnv(env.port, <<"8","0","0","6">>))
         THEN RespFail(MsgInvalidLiteral)
         ELSE IF \E v \in {env.host, env.user, env.token_name, env.token_value} :
                     Missing(v)
         THEN RespFail(MsgConfigVar)
         ELSE RespOk(ConfigOf(env.host[1], GetEnv(env.log_level, StrInfo), <<>>))
    ELSE IF env.file.kind = "missing"
    THEN RespFail(MsgFailedToLoad \o MsgNoSuchFile)
    ELSE IF env.file.kind = "bad_json"
    THEN RespFail(MsgInvalidJson)
    ELSE LET config_data == env.file.data
             host == DictGet(DictGet(config_data, "proxmox", <<>>), "host", <<>>)
             logging == DictGet(config_data, "logging", <<>>)
         IN  IF host = <<>>
             THEN RespFail(MsgFailedToLoad \o MsgHostEmpty)
             ELSE IF "auth" \notin DOMAIN config_data
             THEN RespFail(MsgFailedToLoad \o MsgValidation)
             ELSE RespOk(ConfigOf(host, DictGet(logging, "level", StrInfo),
                                  DictGet(logging, "file", <<>>)))

\* the message main prints for an exception
MainMessage(message) ==
    IF \E i \in 1..Len(message) : message[i] = StrConfigVar
    THEN MsgHint
    ELSE <<"Error: ">> \o message

\* logging.FileHandler / logging.StreamHandler; made is the setup_logging
\* call that created the handler
FileHandler(path, levelno, made) ==
    [kind |-> "file", target |-> path, levelno |-> levelno, made |-> made]
StreamHandler_on_stdout(stream, levelno, made) ==
    [kind |-> "stream", target |-> "stdout", levelno |-> levelno, made |-> made]
StreamHandler(stream, levelno, made) ==
    [kind |-> "stream", target |-> stream, levelno |-> levelno, made |-> made]

TempDir == <<"/", "tmp">>
HomeDir == <<"/", "home">>
IsAbs(path) == path # <<>> /\ path[1] = "/"
Basename(path) == <<path[Len(path)]>>

\* the log file of lines 60-73: the override, made absolute
LogFile(cfg, env) ==
    LET log_file == GetEnv(env.log_file_var, cfg.file)
        cwd == env.fs.cwd
        base_dir == IF cwd = <<"/">> \/ ~env.fs.cwd_writable
                    THEN IF env.fs.home_writable THEN HomeDir ELSE TempDir
                    ELSE cwd
    IN  IF log_file # <<>> /\ ~IsAbs(log_file) THEN base_dir \o log_file ELSE log_file

\* the root logger keeping the handlers it has and adding the new ones
Install_keeping_old(root, levelno, handlers) ==
    [levelno |-> levelno, handlers |-> root.handlers \o handlers]

\* root_logger.setLevel; removeHandler for each old handler; addHandler for
\* each new one
Install(root, levelno, handlers) ==
    [levelno |-> levelno, handlers |-> handlers]

\* setup_logging: whether it raised, the root logger after it, and what it
\* printed to standard error
setup_logging(cfg, env, root, made) ==
    LET disable_file_log ==
            Lower(GetEnv(env.disable_file_log, <<>>))
                \in {<<"1">>, <<"t","r","u","e">>, <<"y","e","s">>}
        log_file == LogFile(cfg, env)
        wanted == log_file # <<>> /\ ~disable_file_log
        safe_path == TempDir \o Basename(log_file)
        opened == IF ~wanted \/ env.fs.open = "both_fail" THEN <<>>
                  ELSE IF env.fs.open = "ok" THEN <<log_file>>
                  ELSE <<safe_path>>
        printed == IF wanted /\ env.fs.open = "both_fail" THEN {MsgFileLogOff} ELSE {}
        level == Upper(cfg.level)
    IN  IF level \notin LevelNames
        THEN [raised |-> TRUE, root |-> root, printed |-> printed]
        ELSE LET file_handlers ==
                     IF opened = <<>> THEN <<>>
                     ELSE <<FileHandler(opened[1], LevelNo(level), made)>>
                 console_handler == StreamHandler("stderr", LevelNo(StrError), made)
             IN  [raised |-> FALSE,
                  root |-> Install(root, LevelNo(level), file_handlers \o <<console_handler>>),
                  printed |-> printed]

\* what a record of the "proxmox-mcp" logger writes to a stream: the record
\* passes the root logger's level, then each handler's
Emit(root, levelno, text, stream) ==
    IF /\ levelno >= root.levelno
       /\ \E i \in 1..Len(root.handlers) :
             /\ root.handlers[i].kind = "stream"
             /\ root.handlers[i].target = stream
             /\ root.handlers[i].levelno <= levelno
    THEN {text}
    ELSE {}

\* the root logger of a fresh interpreter: level WARNING, no handlers
FreshRoot == [levelno |-> LevelNo(<<"W","A","R","N","I","N","G">>), handlers |-> <<>>]

(***************************************************************************)
(* The environments the process is started in.                             *)
(***************************************************************************)
StrHost == <<"p","v","e">>
StrUser == <<"r","o","o","t","@","p","a","m">>
StrToken == <<"t","o","k">>
StrSecret == <<"s","3","c">>
ConfigPath == <<"/", "etc", "config.json">>
RelLog == <<"logs", "mcp.log">>
AbsLog == <<"/", "var", "log", "mcp.log">>

NoFile == [kind |-> "missing", data |-> <<>>]
GoodFs == [cwd |-> <<"/", "srv">>, cwd_writable |-> TRUE, home_writable |-> TRUE, open |-> "ok"]

\* the four required variables set, nothing else
GoodEnviron ==
    [config_path |-> <<>>, host |-> <<StrHost>>, user |-> <<StrUser>>,
     token_name |-> <<StrToken>>, token_value |-> <<StrSecret>>, port |-> <<>>,
     log_level |-> <<>>, log_file_var |-> <<>>, disable_file_log |-> <<>>,
     file |-> NoFile, fs |-> GoodFs]

\* a variable is unset, set to the empty string, or set
Settings(v) == {<<>>, <<<<>>>>, <<v>>}

\* no config file: each required variable in each of its settings
EnvOnlyEnvirons ==
    {[GoodEnviron EXCEPT !.config_path = cp, !.host = h, !.user = u,
                         !.token_name = tn, !.token_value = tv, !.port = pt] :
        cp \in {<<>>, <<<<>>>>}, h \in Settings(StrHost), u \in Settings(StrUser),
        tn \in Settings(StrToken), tv \in Settings(StrSecret),
        pt \in {<<>>, <<<<"8","0","0","6">>>>, <<<<"a","b","c">>>>}}

GoodProxmox == [host |-> StrHost]
GoodAuth == [user |-> StrUser, token_name |-> StrToken, token_value |-> StrSecret]
ConfigFiles ==
    {NoFile,
     [kind |-> "bad_json", data |-> <<>>],
     [kind |-> "json", data |-> [auth |-> GoodAuth]],
     [kind |-> "json", data |-> [proxmox |-> [host |-> <<>>], auth |-> GoodAuth]],
     [kind |-> "json", data |-> [proxmox |-> [port |-> <<"8","0","0","6">>], auth |-> GoodAuth]],
     [kind |-> "json", data |-> [proxmox |-> GoodProxmox]],
     [kind |-> "json", data |-> [proxmox |-> GoodProxmox, auth |-> GoodAuth]],
     [kind |-> "json",
      data |-> [proxmox |-> GoodProxmox, auth |-> GoodAuth,
                logging |-> [level |-> <<"d","e","b","u","g">>, file |-> RelLog]]],
     [kind |-> "json",
      data |-> [proxmox |-> GoodProxmox, auth |-> GoodAuth,
                logging |-> [level |-> <<"v","e","r","b","o","s","e">>]]]}

\* a config file named: the variables of the fallback set or not
FileEnvirons ==
    {[GoodEnviron EXCEPT !.config_path = <<ConfigPath>>, !.file = f, !.host = h] :
        f \in ConfigFiles, h \in {<<>>, <<StrHost>>}}

FileSystems ==
    [cwd : {<<"/", "srv">>, <<"/">>}, cwd_writable : BOOLEAN, home_writable : BOOLEAN,
     open : {"ok", "first_fails", "both_fail"}]

\* what setup_logging reads: the level, the two variables, the file system
LogSettings ==
    [log_level : {<<>>, <<<<"d","e","b","u","g">>>>, <<<<"v","e","r","b","o","s","e">>>>},
     log_file_var : {<<>>, <<<<>>>>, <<RelLog>>, <<AbsLog>>},
     disable_file_log : {<<>>, <<<<"1">>>>, <<<<"T","R","U","E">>>>, <<<<"n","o">>>>},
     fs : FileSystems]

WithLogging(e, l) ==
    [e EXCEPT !.log_level = l.log_level, !.log_file_var = l.log_file_var,
              !.disable_file_log = l.disable_file_log, !.fs = l.fs]

LoggingEnvirons ==
    {WithLogging(e, l) :
        e \in {GoodEnviron,
               [GoodEnviron EXCEPT !.config_path = <<ConfigPath>>,
                   !.file = [kind |-> "json",
                             data |-> [proxmox |-> GoodProxmox, auth |-> GoodAuth,
                                       logging |-> [level |-> <<"d","e","b","u","g">>,
                                                    file |-> RelLog]]]]},
        l \in LogSettings}

Environs == EnvOnlyEnvirons \cup FileEnvirons \cup LoggingEnvirons

\* the catalog, the Facade handle and the tool objects before and after
\* ProxmoxMCPServer.__init__
Unbuilt == [catalog |-> {}, proxmox |-> <<>>, tools |-> {}]
Constructed ==
    [catalog |-> {"get_nodes", "get_vms", "create_vm", "start_vm", "stop_vm",
                  "shutdown_vm", "reset_vm", "delete_vm", "execute_vm_command",
                  "proxmox_request"},
     proxmox |-> <<"ProxmoxAPI">>,
     tools |-> {"node_tools", "vm_tools", "storage_tools", "cluster_tools",
                "container_tools", "generic_tools", "access_tools", "firewall_tools",
                "pool_tools", "backup_tools", "admin_tools", "ha_tools", "repl_tools",
                "sdn_tools", "ceph_tools"}]

(***************************************************************************)
(* The handled calls.  A call is taken while the loop is waiting.          *)
(***************************************************************************)
\* a handler that keeps what it did on its tool object
Handled_remembering(name, a, run) ==
    /\ op' = name
    /\ args' = a
    /\ calls' = run.calls
    /\ result' = run.result
    /\ shared' = [shared EXCEPT !.tools = @ \cup {"last_result"}]
    /\ UNCHANGED procVars

\* the closure registered for a tool calls the method of its tool object,
\* which reads self.proxmox and assigns no attribute
Handled(name, a, run) ==
    /\ op' = name
    /\ args' = a
    /\ calls' = run.calls
    /\ result' = run.result
    /\ shared' = shared
    /\ UNCHANGED procVars

\* the process is up: main loaded the configuration, set up logging, built
\* the server and started the transport loop, which waits for a call
Init ==
    /\ op = "idle"
    /\ args = <<>>
    /\ calls = <<>>
    /\ result = [outcome |-> "none"]
    /\ shared = Constructed
    /\ environ = GoodEnviron
    /\ config = <<load_config(GoodEnviron.config_path, GoodEnviron).val>>
    /\ phase = "serving"
    /\ root_logger =
           setup_logging(load_config(GoodEnviron.config_path, GoodEnviron).val,
                         GoodEnviron, FreshRoot, 1).root
    /\ stdout = {}
    /\ stderr = {}
    /\ exit_status = <<>>
    /\ setup_calls = 1

StartVm ==
    /\ op = "idle"
    /\ \E node \in Nodes, vmid \in VmIds, sr \in StatusResps, wr \in WriteResps :
        Handled("start_vm", [node |-> node, vmid |-> vmid],
                start_vm(node, vmid, sr, wr))

StopVm ==
    /\ op = "idle"
    /\ \E node \in Nodes, vmid \in VmIds, sr \in StatusResps, wr \in WriteResps :
        Handled("stop_vm", [node |-> node, vmid |-> vmid],
                stop_vm(node, vmid, sr, wr))

ShutdownVm ==
    /\ op = "idle"
    /\ \E node \in Nodes, vmid \in VmIds, sr \in StatusResps, wr \in WriteResps :
        Handled("shutdown_vm", [node |-> node, vmid |-> vmid],
                shutdown_vm(node, vmid, sr, wr))

ResetVm ==
    /\ op = "idle"
    /\ \E node \in Nodes, vmid \in VmIds, sr \in StatusResps, wr \in WriteResps :
        Handled("reset_vm", [node |-> node, vmid |-> vmid],
                reset_vm(node, vmid, sr, wr))

DeleteVm ==
    /\ op = "idle"
    /\ \E node \in Nodes, vmid \in VmIds, force \in BOOLEAN,
       sr \in StatusResps, stopResp \in WriteResps, dr \in WriteResps :
        Handled("delete_vm", [node |-> node, vmid |-> vmid, force |-> force],
                delete_vm(node, vmid, force, sr, stopResp, dr))

ProxmoxRequest ==
    /\ op = "idle"
    /\ \E method \in CallerMethods, path \in CallerPaths,
       params \in ParamBags, data \in ParamBags, resp \in PassResps :
        Handled("proxmox_request",
                [path |-> path, method |-> method, params |-> params, data |-> data],
                dispatch_proxmox_request(method, path, params, data, resp))

\* a call the argument validation rejects reaches no Facade call, so no
\* response is drawn for it
CreateVm ==
    /\ op = "idle"
    /\ \E node \in Nodes, vmid \in VmIds, <<cpus, memory, disk_size>> \in SizeArgs,
          storage \in StorageArgs, ostype \in OstypeArgs :
        \E probeResp \in IF ValidCreateVm(cpus, memory, disk_size)
                          THEN ProbeResps ELSE {RespFail(MsgTimeout)},
           listResp \in IF ValidCreateVm(cpus, memory, disk_size)
                         THEN StorageListResps ELSE {RespFail(MsgTimeout)},
           createResp \in IF ValidCreateVm(cpus, memory, disk_size)
                           THEN WriteResps ELSE {RespFail(MsgTimeout)} :
            Handled("create_vm",
                    [name |-> "web", node |-> node, vmid |-> vmid, storage |-> storage,
                     cpus |-> cpus, memory |-> memory, disk_size |-> disk_size,
                     ostype |-> ostype],
                    dispatch_create_vm(node, vmid, "web", cpus, memory, disk_size,
                                       storage, ostype, probeResp, listResp, createResp))

StopContainer ==
    /\ op = "idle"
    /\ \E selector \in CtSelectors, graceful \in BOOLEAN, timeout_seconds \in TimeoutArgs,
       resp \in WriteResps :
        Handled("stop_container",
                [selector |-> selector, graceful |-> graceful,
                 timeout_seconds |-> timeout_seconds],
                dispatch_stop_container(selector, graceful, timeout_seconds, resp))

RestartContainer ==
    /\ op = "idle"
    /\ \E selector \in CtSelectors, timeout_seconds \in TimeoutArgs, resp \in WriteResps :
        Handled("restart_container",
                [selector |-> selector, timeout_seconds |-> timeout_seconds],
                dispatch_restart_container(selector, timeout_seconds, resp))

GetVms ==
    /\ op = "idle"
    /\ \E nodesResp \in NodesResps :
        \E qemuResps \in [1..(IF nodesResp.ok THEN Len(nodesResp.val) ELSE 0) -> QemuResps] :
            Handled("get_vms", <<>>, get_vms(nodesResp, qemuResps))

GetNodes == op = "idle" /\ \E resp \in ListResps : Handled("get_nodes", <<>>, get_nodes(resp))

GetStorage == op = "idle" /\ \E resp \in ListResps : Handled("get_storage", <<>>, get_storage(resp))

ListUsers == op = "idle" /\ \E resp \in ListResps : Handled("list_users", <<>>, list_users(resp))

DeleteUser ==
    /\ op = "idle"
    /\ \E user \in UserIds, resp \in TaskResps :
        Handled("delete_user", [user |-> user], delete_user(user, resp))

ListServices ==
    /\ op = "idle"
    /\ \E node \in Nodes, resp \in ListResps :
        Handled("list_services", [node |-> node], list_services(node, resp))

Vzdump ==
    /\ op = "idle"
    /\ \E node \in Nodes, params \in ParamBags \ {<<>>}, resp \in TaskResps :
        Handled("vzdump", [node |-> node, params |-> params], vzdump(node, params, resp))

CephStatus ==
    /\ op = "idle"
    /\ \E node \in Nodes, resp \in ListResps :
        Handled("ceph_status", [node |-> node], ceph_status(node, resp))

ListDcFirewallRules ==
    /\ op = "idle"
    /\ \E resp \in ListResps :
        Handled("list_dc_firewall_rules", <<>>, list_dc_firewall_rules(resp))

HaListGroups == op = "idle" /\ \E resp \in ListResps : Handled("ha_list_groups", <<>>, ha_list_groups(resp))

DeletePool ==
    /\ op = "idle"
    /\ \E poolid \in PoolIds, resp \in TaskResps :
        Handled("delete_pool", [poolid |-> poolid], delete_pool(poolid, resp))

ReplicationListJobs ==
    /\ op = "idle"
    /\ \E resp \in ListResps :
        Handled("replication_list_jobs", <<>>, replication_list_jobs(resp))

SdnListZones == op = "idle" /\ \E resp \in ListResps : Handled("sdn_list_zones", <<>>, sdn_list_zones(resp))

GetVmStatus ==
    /\ op = "idle"
    /\ \E node \in Nodes, vmid \in VmIds, resp \in ListResps :
        Handled("get_vm_status", [node |-> node, vmid |-> vmid],
                get_vm_status(node, vmid, resp))

CreateVmSnapshot ==
    /\ op = "idle"
    /\ \E node \in Nodes, vmid \in VmIds, snapname \in SnapNames,
          vmstate \in OptBools, description \in OptTexts, resp \in TaskResps :
        Handled("create_vm_snapshot",
                [node |-> node, vmid |-> vmid, snapname |-> snapname,
                 vmstate |-> vmstate, description |-> description],
                create_vm_snapshot(node, vmid, snapname, vmstate, description, resp))

CloneVm ==
    /\ op = "idle"
    /\ \E node \in Nodes, vmid \in VmIds, target \in OptNodes, newid \in OptVmIds,
          name \in OptTexts, full \in OptBools, storage \in OptStorages,
          resp \in TaskResps :
        Handled("clone_vm",
                [node |-> node, vmid |-> vmid, target |-> target, newid |-> newid,
                 name |-> name, full |-> full, storage |-> storage],
                clone_vm(node, vmid, target, newid, name, full, storage, resp))

MigrateVm ==
    /\ op = "idle"
    /\ \E node \in Nodes, vmid \in VmIds, target \in Nodes, online \in OptBools,
          resp \in TaskResps :
        Handled("migrate_vm",
                [node |-> node, vmid |-> vmid, target |-> target, online |-> online],
                migrate_vm(node, vmid, target, online, resp))

CreateUser ==
    /\ op = "idle"
    /\ \E user \in UserIds, password \in OptTexts, comment \in OptTexts,
          expire \in OptExpires, enable \in OptBools, resp \in TaskResps :
        Handled("create_user",
                [user |-> user, password |-> password, comment |-> comment,
                 expire |-> expire, enable |-> enable],
                create_user(user, password, comment, expire, enable, resp))

UpdateUser ==
    /\ op = "idle"
    /\ \E user \in UserIds, changes \in ParamBags \ {<<>>}, resp \in TaskResps :
        Handled("update_user", [user |-> user, changes |-> changes],
                update_user(user, OrEmptyDict(changes), resp))

SetAcl ==
    /\ op = "idle"
    /\ \E path \in AclPaths, roles \in OptCsvs, users \in OptCsvs, groups \in OptCsvs,
          propagate \in OptBools, delete \in OptBools, resp \in TaskResps :
        Handled("set_acl",
                [path |-> path, roles |-> roles, users |-> users, groups |-> groups,
                 propagate |-> propagate, delete |-> delete],
                set_acl(path, roles, users, groups, propagate, delete, resp))

CreatePool ==
    /\ op = "idle"
    /\ \E poolid \in PoolIds, comment \in OptTexts, resp \in TaskResps :
        Handled("create_pool", [poolid |-> poolid, comment |-> comment],
                create_pool(poolid, comment, resp))

ServiceAction ==
    /\ op = "idle"
    /\ \E node \in Nodes, service \in ServiceNames, action \in ServiceActions,
          resp \in TaskResps :
        Handled("service_action", [node |-> node, service |-> service, action |-> action],
                service_action(node, service, action, resp))

\* execute_vm_command up to the point where the exec call is on its way to
\* the hypervisor: a call that issues no exec call ends here, one that does
\* is left waiting for the answer
ExecuteVmCommand ==
    /\ op = "idle"
    /\ \E node \in Nodes, vmid \in VmIds, command \in CommandArgs,
          statusResp \in StatusResps, execResp \in ExecResps :
           LET a == [node |-> node, vmid |-> vmid, command |-> command]
               run == execute_command(node, vmid, command, statusResp, execResp)
           IN  IF Len(run.calls) = 2
               THEN /\ op' = "execute_vm_command"
                    /\ args' = a
                    /\ calls' = <<run.calls[1]>>
                    /\ result' = [outcome |-> "pending"]
                    /\ UNCHANGED <<shared, procVars>>
               ELSE Handled("execute_vm_command", a, run)

\* the hypervisor answers the exec call and execute_vm_command runs to its end
ExecReturns ==
    /\ op = "execute_vm_command"
    /\ result.outcome = "pending"
    /\ \E execResp \in ExecResps :
           LET run == execute_command(args.node, args.vmid, args.command,
                                      calls[1].resp, execResp)
           IN  /\ calls' = run.calls
               /\ result' = run.result
               /\ UNCHANGED <<op, args, shared, procVars>>

\* the result went back to the transport; the loop waits for the next call
Respond ==
    /\ op # "idle"
    /\ result.outcome # "pending"
    /\ op' = "idle"
    /\ args' = <<>>
    /\ calls' = <<>>
    /\ result' = [outcome |-> "none"]
    /\ UNCHANGED <<shared, procVars>>

Next ==
    \/ StartVm
    \/ StopVm
    \/ ShutdownVm
    \/ ResetVm
    \/ DeleteVm
    \/ ProxmoxRequest
    \/ CreateVm
    \/ StopContainer
    \/ RestartContainer
    \/ GetVms
    \/ GetNodes
    \/ GetStorage
    \/ ListUsers
    \/ DeleteUser
    \/ ListServices
    \/ Vzdump
    \/ CephStatus
    \/ ListDcFirewallRules
    \/ HaListGroups
    \/ DeletePool
    \/ ReplicationListJobs
    \/ SdnListZones
    \/ GetVmStatus
    \/ CreateVmSnapshot
    \/ CloneVm
    \/ MigrateVm
    \/ CreateUser
    \/ UpdateUser
    \/ SetAcl
    \/ CreatePool
    \/ ServiceAction
    \/ ExecuteVmCommand
    \/ ExecReturns
    \/ Respond

Spec == Init /\ [][Next]_vars

(***************************************************************************)
(* The process from its start: main, then ProxmoxMCPServer.__init__, then  *)
(* start.  phase says where main is, and how it ended: "failed" in its     *)
(* except Exception, "interrupted" in its except KeyboardInterrupt,        *)
(* "stopped" in the signal handler, "crashed" in start's except.           *)
(***************************************************************************)
\* print(text, file=sys.stderr); sys.exit(status)
Exit(how, status, texts) ==
    /\ phase' = how
    /\ exit_status' = <<status>>
    /\ stderr' = stderr \cup texts

\* logger.log(levelno, text) on a logger below the root
Log(levelno, text) ==
    /\ stdout' = stdout \cup Emit(root_logger, levelno, text, "stdout")
    /\ stderr' = stderr \cup Emit(root_logger, levelno, text, "stderr")

StartupInit ==
    /\ op = "idle"
    /\ args = <<>>
    /\ calls = <<>>
    /\ result = [outcome |-> "none"]
    /\ shared = Unbuilt
    /\ environ \in Environs
    /\ config = <<>>
    /\ phase = "main"
    /\ root_logger = FreshRoot
    /\ stdout = {}
    /\ stderr = {}
    /\ exit_status = <<>>
    /\ setup_calls = 0

\* self.config = load_config(config_path), config_path read from the environment
LoadConfig ==
    /\ phase = "main"
    /\ LET loaded == load_config(environ.config_path, environ)
       IN  IF loaded.ok
           THEN /\ config' = <<loaded.val>>
                /\ phase' = "loaded"
                /\ UNCHANGED <<stderr, exit_status>>
           ELSE /\ Exit("failed", 1, {MainMessage(loaded.msg)})
                /\ UNCHANGED config
    /\ UNCHANGED <<callVars, shared, environ, root_logger, stdout, setup_calls>>

\* self.logger = setup_logging(self.config.logging)
SetupLogging ==
    /\ phase = "loaded"
    /\ LET done == setup_logging(config[1], environ, root_logger, setup_calls + 1)
       IN  /\ root_logger' = done.root
           /\ IF done.raised
              THEN Exit("failed", 1, done.printed \cup {MainMessage(MsgNoLevel)})
              ELSE /\ phase' = "logging"
                   /\ stderr' = stderr \cup done.printed
                   /\ UNCHANGED exit_status
    /\ setup_calls' = setup_calls + 1
    /\ UNCHANGED <<callVars, shared, environ, config, stdout>>

\* ProxmoxManager connects, the tool objects are built, the tools registered
Connect ==
    /\ phase = "logging"
    /\ \/ /\ shared' = Constructed
          /\ phase' = "constructed"
          /\ UNCHANGED <<stdout, stderr, exit_status>>
       \/ /\ stdout' = stdout \cup Emit(root_logger, LevelNo(StrError), MsgConnect, "stdout")
          /\ Exit("failed", 1,
                  Emit(root_logger, LevelNo(StrError), MsgConnect, "stderr")
                      \cup {MainMessage(MsgConnect)})
          /\ UNCHANGED shared
    /\ UNCHANGED <<callVars, environ, config, root_logger, setup_calls>>

\* start: the signal handlers are set, the transport loop begins
Start ==
    /\ phase = "constructed"
    /\ Log(LevelNo(StrInfo), MsgStarting)
    /\ phase' = "serving"
    /\ UNCHANGED <<callVars, shared, environ, config, root_logger, exit_status, setup_calls>>

\* the transport answers a call with a frame on standard output
WriteFrame ==
    /\ phase = "serving"
    /\ stdout' = stdout \cup {Frame}
    /\ UNCHANGED <<callVars, shared, environ, config, phase, root_logger, stderr,
                   exit_status, setup_calls>>

\* a tool logs while it handles a call
ServeLog ==
    /\ phase = "serving"
    /\ \E levelname \in {StrInfo, StrError} : Log(LevelNo(levelname), MsgToolLog)
    /\ UNCHANGED <<callVars, shared, environ, config, phase, root_logger, exit_status,
                   setup_calls>>

\* signal_handler: SIGINT or SIGTERM while the loop runs
Signal ==
    /\ phase = "serving"
    /\ stdout' = stdout \cup Emit(root_logger, LevelNo(StrInfo), MsgSignal, "stdout")
    /\ Exit("stopped", 0, Emit(root_logger, LevelNo(StrInfo), MsgSignal, "stderr"))
    /\ UNCHANGED <<callVars, shared, environ, config, root_logger, setup_calls>>

\* the loop raised: start's except Exception
ServerError ==
    /\ phase = "serving"
    /\ stdout' = stdout \cup Emit(root_logger, LevelNo(StrError), MsgServerError, "stdout")
    /\ Exit("crashed", 1, Emit(root_logger, LevelNo(StrError), MsgServerError, "stderr"))
    /\ UNCHANGED <<callVars, shared, environ, config, root_logger, setup_calls>>

\* KeyboardInterrupt before start has set its signal handlers
Interrupt ==
    /\ phase \in {"main", "loaded", "logging", "constructed"}
    /\ Exit("interrupted", 0, {MsgShutdown})
    /\ UNCHANGED <<callVars, shared, environ, config, root_logger, stdout, setup_calls>>

StartupNext ==
    \/ LoadConfig
    \/ SetupLogging
    \/ Connect
    \/ Start
    \/ WriteFrame
    \/ ServeLog
    \/ Signal
    \/ ServerError
    \/ Interrupt

StartupSpec == StartupInit /\ [][StartupNext]_vars

(***************************************************************************)
(* setup_logging called again and again in one process, each call with the *)
(* configuration, the environment variables and the file system it finds.  *)
(***************************************************************************)
LoggingConfigs ==
    {ConfigOf(StrHost, level, file) :
        level \in {StrInfo, <<"d","e","b","u","g">>, <<"v","e","r","b","o","s","e">>},
        file \in {<<>>, RelLog}}

\* what the repeated calls find: the working directory writable or the root
RepeatSettings ==
    {l \in LogSettings :
        /\ l.log_level = <<>>
        /\ l.disable_file_log \in {<<>>, <<<<"T","R","U","E">>>>}
        /\ l.fs.cwd_writable}

LoggingInit ==
    /\ op = "idle"
    /\ args = <<>>
    /\ calls = <<>>
    /\ result = [outcome |-> "none"]
    /\ shared = Unbuilt
    /\ environ = GoodEnviron
    /\ config = <<>>
    /\ phase = "fresh"
    /\ root_logger = FreshRoot
    /\ stdout = {}
    /\ stderr = {}
    /\ exit_status = <<>>
    /\ setup_calls = 0

SetupLoggingCall ==
    /\ setup_calls < MaxSetupCalls
    /\ \E cfg \in LoggingConfigs, l \in RepeatSettings :
          /\ LET done == setup_logging(cfg, WithLogging(GoodEnviron, l), root_logger,
                                       setup_calls + 1)
             IN  /\ root_logger' = done.root
                 /\ stderr' = stderr \cup done.printed
                 /\ phase' = IF done.raised THEN "raised" ELSE "configured"
          /\ config' = <<cfg>>
    /\ setup_calls' = setup_calls + 1
    /\ UNCHANGED <<callVars, shared, environ, stdout, exit_status>>

\* a record logged between two calls
LoggedBetween ==
    /\ setup_calls > 0
    /\ \E levelname \in {StrInfo, StrError} : Log(LevelNo(levelname), MsgToolLog)
    /\ UNCHANGED <<callVars, shared, environ, config, phase, root_logger, exit_status,
                   setup_calls>>

LoggingNext ==
    \/ SetupLoggingCall
    \/ LoggedBetween

LoggingSpec == LoggingInit /\ [][LoggingNext]_vars

(***************************************************************************)
(* Vocabulary of the properties.                                           *)
(***************************************************************************)
Writes == SelectSeq(calls, IsWrite)
Reads == SelectSeq(calls, LAMBDA c : ~IsWrite(c))

\* the handled call's status read answered, and answered with status s
StatusReported(s) ==
    /\ calls # <<>>
    /\ calls[1].resp.ok
    /\ DictGet(calls[1].resp.val, "status", None) = s

IsStop(c) == c.verb = "POST" /\ c.path = VmPath(args.node, args.vmid, <<"status", "stop">>)
IsDelete(c) == c.verb = "DELETE" /\ c.path = VmPath(args.node, args.vmid, <<>>)
IsStatusRead(c) == c.verb = "GET" /\ c.path = VmPath(args.node, args.vmid, <<"status", "current">>)

\* a member of seq occurs in s
HasPart(s, part) == \E i \in 1..Len(s) : s[i] = part

\* the error kinds of the taxonomy, as the code raises them
IsConflict(r) ==
    r.outcome = "error" /\ r.exc = "ValueError" /\ r.why \in {"vm_running", "vm_stopped", "vm_exists"}

\* the rejection of the argument validation
IsInvalidArgument(r) ==
    r.outcome = "error" /\ r.exc \in {"ValidationError", "ValueError"}
        /\ r.why = "arguments"

\* an error of the taxonomy: anything raised but the Facade's own exception
IsClassifiedError(r) ==
    r.outcome = "error" /\ r.exc \in {"ValueError", "RuntimeError", "ValidationError"}

\* NotFound as the code raises it
IsNotFound(r) ==
    r.outcome = "error" /\ r.exc = "ValueError" /\ r.why \in {"vm_not_found", "not_found"}

\* the message of a failed call names a missing resource, in any letter case
SaysMissing(c) ==
    /\ ~c.resp.ok
    /\ \/ Contains(StrNotFound, Lower(c.resp.msg))
       \/ Contains(StrDoesNotExist, Lower(c.resp.msg))

PowerOps == {"start_vm", "stop_vm", "shutdown_vm", "reset_vm"}

(***************************************************************************)
(* C1: delete_vm with force=true on a VM whose status read reports         *)
(* "running" issues its write calls in the order stop, delete and no       *)
(* other write call; when it returns, it has issued exactly one stop call  *)
(* followed by exactly one delete call, and the summary it returns         *)
(* reports both the stop step and the deletion step.                       *)
(***************************************************************************)
C1_ForceDeleteStopsThenDeletes ==
    (op = "delete_vm" /\ args.force /\ StatusReported("running")) =>
        /\ Len(Writes) \in 1..2
        /\ IsStop(Writes[1])
        /\ Len(Writes) = 2 => IsDelete(Writes[2])
        /\ Len(Writes) = 2 <=> Writes[1].resp.ok
        /\ result.outcome = "ok" =>
              /\ Len(Writes) = 2
              /\ result.form = "text"
              /\ HasPart(result.body, "Stopping VM")
              /\ HasPart(result.body, "deletion initiated successfully")
              /\ HasPart(result.body, Writes[2].resp.val)
        /\ (Writes[1].resp.ok /\ Len(Writes) = 2 /\ Writes[2].resp.ok) => result.outcome = "ok"

C1_Witness ==
    /\ op = "delete_vm" /\ args.force /\ StatusReported("running")
    /\ result.outcome = "ok"
    /\ Len(Writes) = 2

(***************************************************************************)
(* C2: delete_vm with force=false on a VM whose status read reports        *)
(* "running" fails with the Conflict error (ValueError, VM is currently    *)
(* running) and issues no write call: neither stop nor delete.             *)
(***************************************************************************)
C2_RunningWithoutForceConflicts ==
    (op = "delete_vm" /\ ~args.force /\ StatusReported("running")) =>
        /\ IsConflict(result)
        /\ result.why = "vm_running"
        /\ Writes = <<>>
        /\ Len(calls) = 1

C2_Witness ==
    /\ op = "delete_vm" /\ ~args.force /\ StatusReported("running")
    /\ result.outcome = "error"

(***************************************************************************)
(* C3: start_vm on a VM whose status read reports "running" returns the    *)
(* no-op success message and issues no write call; the start call is       *)
(* issued, exactly once, exactly when the status read answers with a       *)
(* status other than "running".                                            *)
(***************************************************************************)
C3_StartRunningIsNoOp ==
    op = "start_vm" =>
        /\ StatusReported("running") =>
              /\ result = TextResult(<<"VM", args.vmid, "is already running">>)
              /\ Writes = <<>>
        /\ (calls[1].resp.ok /\ ~StatusReported("running")) =>
              /\ Len(Writes) = 1
              /\ Writes[1].verb = "POST"
              /\ Writes[1].path = VmPath(args.node, args.vmid, <<"status", "start">>)
        /\ ~calls[1].resp.ok => Writes = <<>>

C3_Witness ==
    /\ op = "start_vm" /\ StatusReported("running")
    /\ result.outcome = "ok"

C3_WitnessStarted ==
    /\ op = "start_vm" /\ StatusReported("stopped")
    /\ Len(Writes) = 1

(***************************************************************************)
(* C4: reset_vm on a VM whose status read reports "stopped" is rejected    *)
(* with a Conflict error, not returned as a normal successful result.      *)
(***************************************************************************)
C4_ResetStoppedIsConflict ==
    (op = "reset_vm" /\ StatusReported("stopped")) => IsConflict(result)

(***************************************************************************)
(* C5: stop_vm, shutdown_vm and reset_vm on a VM whose status read reports *)
(* "stopped" issue no write call; each of the four power operations        *)
(* performs exactly one status read, as its first call, and at most one    *)
(* write call after it.                                                    *)
(***************************************************************************)
C5_PowerOpsReadThenAtMostOneWrite ==
    op \in PowerOps =>
        /\ (op \in {"stop_vm", "shutdown_vm", "reset_vm"} /\ StatusReported("stopped")) =>
              Writes = <<>>
        /\ Len(calls) \in 1..2
        /\ IsStatusRead(calls[1])
        /\ Len(Reads) = 1
        /\ Len(Writes) <= 1
        /\ Len(calls) = 2 => IsWrite(calls[2]) /\ calls[1].resp.ok

C5_Witness ==
    /\ op \in {"stop_vm", "shutdown_vm", "reset_vm"} /\ StatusReported("stopped")
    /\ Writes = <<>>
    /\ result.outcome = "ok"

C5_WitnessWrite ==
    /\ op = "shutdown_vm" /\ Len(calls) = 2

(***************************************************************************)
(* C6: the passthrough strips the leading slashes and the API-version      *)
(* prefix before calling the Facade: when the caller's path is k slashes,  *)
(* then optionally "api2/json/", then rest, the Facade is called with      *)
(* exactly rest; "/api2/json/nodes" reaches the Facade as "nodes".         *)
(***************************************************************************)
C6_PathIsNormalized ==
    (op = "proxmox_request" /\ calls # <<>>) =>
        /\ Len(calls) = 1
        /\ \A k \in 0..MaxSlashes, w \in BOOLEAN, rest \in PathRests :
              (IsDecomposition(w, rest) /\ args.path = ComposePath(k, w, rest)) =>
                  calls[1].path = rest
        /\ args.path = <<"/">> \o ApiPrefix \o <<"n","o","d","e","s">> =>
              calls[1].path = <<"n","o","d","e","s">>

C6_Witness ==
    /\ op = "proxmox_request"
    /\ args.path = <<"/">> \o ApiPrefix \o <<"n","o","d","e","s">>
    /\ Len(calls) = 1
    /\ calls[1].path = <<"n","o","d","e","s">>

C6_WitnessManySlashes ==
    /\ op = "proxmox_request"
    /\ args.path = ComposePath(MaxSlashes, TRUE, <<"/","n">>)
    /\ Len(calls) = 1

(***************************************************************************)
(* C7: for the passthrough, GET and DELETE send the params bag alone; POST *)
(* and PUT send the shallow merge of params and data, in which a key       *)
(* present in both carries the value from data.                            *)
(***************************************************************************)
C7_PayloadByVerb ==
    (op = "proxmox_request" /\ calls # <<>>) =>
        LET p == IF args.params = <<>> THEN <<>> ELSE args.params[1]
            d == IF args.data = <<>> THEN <<>> ELSE args.data[1]
            sent == calls[1].payload
        IN  /\ calls[1].verb \in {"GET", "DELETE"} =>
                  /\ DOMAIN sent = DOMAIN p
                  /\ \A k \in DOMAIN sent : sent[k] = p[k]
            /\ calls[1].verb \in {"POST", "PUT"} =>
                  /\ DOMAIN sent = (DOMAIN p) \cup (DOMAIN d)
                  /\ \A k \in DOMAIN d : sent[k] = d[k]
                  /\ \A k \in (DOMAIN p) \ (DOMAIN d) : sent[k] = p[k]
            /\ calls[1].verb \in {"GET", "DELETE", "POST", "PUT"}

C7_Witness ==
    /\ op = "proxmox_request" /\ calls # <<>>
    /\ calls[1].verb = "POST"
    /\ args.params = << [a |-> 1, b |-> 2] >>
    /\ args.data = << [a |-> 2] >>
    /\ calls[1].payload = [a |-> 2, b |-> 2]

C7_WitnessGet ==
    /\ op = "proxmox_request" /\ calls # <<>>
    /\ calls[1].verb = "DELETE"
    /\ args.params = << [b |-> 1] >>
    /\ args.data = << [a |-> 2] >>

(***************************************************************************)
(* C8: a create_vm call whose cpus lies outside 1..32, whose memory lies   *)
(* outside 512..131072 or whose disk_size lies outside 5..1000, and a      *)
(* stop_container or restart_container call whose timeout_seconds lies     *)
(* outside 1..600, is rejected as an invalid argument and issues no        *)
(* Facade call.                                                            *)
(***************************************************************************)
C8_OutOfRangeIsInvalidArgument ==
    /\ (op = "create_vm" /\ (\/ args.cpus < 1 \/ args.cpus > 32
                              \/ args.memory < 512 \/ args.memory > 131072
                              \/ args.disk_size < 5 \/ args.disk_size > 1000)) =>
           (IsInvalidArgument(result) /\ calls = <<>>)
    /\ (op \in {"stop_container", "restart_container"}
            /\ (args.timeout_seconds < 1 \/ args.timeout_seconds > 600)) =>
           (IsInvalidArgument(result) /\ calls = <<>>)

C8_Witness ==
    /\ op = "create_vm"
    /\ args.cpus = 33 /\ args.memory = 512 /\ args.disk_size = 1000
    /\ result.outcome = "error"
    /\ calls = <<>>

C8_WitnessTimeout ==
    /\ op = "restart_container"
    /\ args.timeout_seconds = 601
    /\ result.outcome = "error"
    /\ calls = <<>>

C8_WitnessInRange ==
    /\ op = "create_vm"
    /\ args.cpus = 32 /\ args.memory = 131072 /\ args.disk_size = 1000
    /\ Len(calls) = 3

(***************************************************************************)
(* C9: a get_vms call in which the node listing answers and the VM lookup  *)
(* of a node fails still returns a successful result.                      *)
(***************************************************************************)
C9_ListingSurvivesNodeFailure ==
    (op = "get_vms" /\ calls[1].resp.ok
         /\ \E i \in 2..Len(calls) : ~calls[i].resp.ok) =>
        result.outcome = "ok"

(***************************************************************************)
(* C10: an operation whose Facade call failed ends with a classified       *)
(* error, never with the exception the Facade raised.                      *)
(***************************************************************************)
C10_FacadeFailureIsClassified ==
    (op # "idle" /\ \E i \in 1..Len(calls) : ~calls[i].resp.ok) =>
        (result.outcome = "error" => IsClassifiedError(result))

(***************************************************************************)
(* C11: in start_vm, stop_vm, shutdown_vm, reset_vm, delete_vm and         *)
(* execute_vm_command, a Facade call failing with a message that contains  *)
(* "not found" or "does not exist" in any letter case ends the operation   *)
(* with the NotFound error, and the failed call is the last call issued.   *)
(***************************************************************************)
C11_MissingIsNotFound ==
    (op \in PowerOps \cup {"delete_vm", "execute_vm_command"}
        /\ result.outcome # "pending") =>
        \A i \in 1..Len(calls) :
            SaysMissing(calls[i]) => (IsNotFound(result) /\ i = Len(calls))

C11_Witness ==
    /\ op = "start_vm"
    /\ Len(calls) = 1
    /\ calls[1].resp = RespFail(MsgNotFound)
    /\ IsNotFound(result)

C11_WitnessExec ==
    /\ op = "execute_vm_command"
    /\ Len(calls) = 2
    /\ calls[2].resp = RespFail(MsgNoVm)
    /\ IsNotFound(result)

C11_WitnessDeleteStop ==
    /\ op = "delete_vm"
    /\ Len(calls) = 2
    /\ calls[2].resp = RespFail(MsgNotFound)
    /\ IsNotFound(result)

(***************************************************************************)
(* C12: a create_vm call whose pre-flight config read of the VM succeeds   *)
(* (the VM already exists) fails with the Conflict error (ValueError, VM   *)
(* already exists) and issues no create call: the config read is its only  *)
(* Facade call.                                                            *)
(***************************************************************************)
C12_ExistingVmConflicts ==
    (op = "create_vm" /\ calls # <<>> /\ calls[1].resp.ok) =>
        /\ IsConflict(result)
        /\ result.why = "vm_exists"
        /\ Len(calls) = 1
        /\ Writes = <<>>

C12_Witness ==
    /\ op = "create_vm" /\ calls # <<>> /\ calls[1].resp.ok
    /\ calls[1].path = VmPath(args.node, args.vmid, <<"config">>)
    /\ result.outcome = "error"

(***************************************************************************)
(* C13: a create_vm call without a storage name, once the node's storage   *)
(* listing has answered, uses "local-lvm" if the listing has it with       *)
(* images content, otherwise "vm-storage" if the listing has it with       *)
(* images content, otherwise the first entry of the listing whose content  *)
(* includes images, wherever the preferred names stand in the listing;     *)
(* the create call and the summary carry that storage.  With no such       *)
(* entry the call fails without a create call.                             *)
(***************************************************************************)
C13_StoragePriority ==
    (op = "create_vm" /\ args.storage = None /\ Len(calls) >= 2 /\ calls[2].resp.ok) =>
        LET listing == calls[2].resp.val
            Img(i) == /\ "content" \in DOMAIN listing[i]
                      /\ Contains(<<"i","m","a","g","e","s">>, listing[i].content)
            Has(n) == \E i \in 1..Len(listing) : listing[i].storage = n /\ Img(i)
            withImages == {i \in 1..Len(listing) : Img(i)}
            expected ==
                IF Has("local-lvm") THEN "local-lvm"
                ELSE IF Has("vm-storage") THEN "vm-storage"
                ELSE listing[CHOOSE i \in withImages : \A j \in withImages : i <= j].storage
        IN  IF withImages = {}
            THEN /\ Len(calls) = 2
                 /\ result.outcome = "error"
                 /\ result.exc = "ValueError"
            ELSE /\ Len(calls) = 3
                 /\ calls[3].verb = "POST"
                 /\ calls[3].payload.scsi0[1] = expected
                 /\ result.outcome = "ok" => result.body.storage = expected

\* local-lvm is chosen from the second place of the listing
C13_Witness ==
    /\ op = "create_vm" /\ args.storage = None /\ Len(calls) = 3
    /\ Len(calls[2].resp.val) = 2
    /\ calls[2].resp.val[1].storage = "tank"
    /\ calls[2].resp.val[2].storage = "local-lvm"
    /\ calls[3].payload.scsi0[1] = "local-lvm"
    /\ result.outcome = "ok"

C13_WitnessVmStorage ==
    /\ op = "create_vm" /\ args.storage = None /\ Len(calls) = 3
    /\ Len(calls[2].resp.val) = 2
    /\ calls[2].resp.val[1].storage = "local"
    /\ calls[2].resp.val[2].storage = "vm-storage"
    /\ calls[3].payload.scsi0[1] = "vm-storage"

C13_WitnessFallback ==
    /\ op = "create_vm" /\ args.storage = None /\ Len(calls) = 3
    /\ Len(calls[2].resp.val) = 2
    /\ calls[2].resp.val[1].storage = "local-lvm"
    /\ calls[2].resp.val[2].storage = "local"
    /\ calls[3].payload.scsi0[1] = "local"

(***************************************************************************)
(* C14: in a create_vm call that reaches the create call, the disk of the  *)
(* payload has format raw when the chosen storage is of type lvm or        *)
(* lvmthin and qcow2 when it is of type dir, nfs or cifs; the payload has  *)
(* the cloud-init drive ide2 exactly when the type is dir, nfs or cifs;    *)
(* and the summary returned names the storage and the format of the        *)
(* payload and the task identifier the create call answered with.          *)
(***************************************************************************)
C14_DiskFormatFollowsStorageType ==
    (op = "create_vm" /\ Len(calls) = 3) =>
        LET listing == calls[2].resp.val
            sent == calls[3].payload
            used == sent.scsi0[1]
            entry == listing[CHOOSE i \in 1..Len(listing) : listing[i].storage = used]
        IN  /\ \E i \in 1..Len(listing) : listing[i].storage = used
            /\ entry.type \in {"lvm", "lvmthin"} => sent.scsi0[3] = "raw"
            /\ entry.type \in {"dir", "nfs", "cifs"} => sent.scsi0[3] = "qcow2"
            /\ ("ide2" \in DOMAIN sent) <=> (entry.type \in {"dir", "nfs", "cifs"})
            /\ "ide2" \in DOMAIN sent => sent.ide2 = <<used, "cloudinit">>
            /\ sent.scsi0[2] = args.disk_size
            /\ calls[3].resp.ok <=> result.outcome = "ok"
            /\ result.outcome = "ok" =>
                  /\ result.body.storage = used
                  /\ result.body.disk_format = sent.scsi0[3]
                  /\ result.body.task = calls[3].resp.val

C14_Witness ==
    /\ op = "create_vm" /\ Len(calls) = 3
    /\ calls[3].payload.scsi0 = <<"share", 1000, "qcow2">>
    /\ "ide2" \in DOMAIN calls[3].payload
    /\ result.outcome = "ok"
    /\ result.body.task = "UPID:b"

C14_WitnessRaw ==
    /\ op = "create_vm" /\ Len(calls) = 3
    /\ calls[3].payload.scsi0 = <<"san", 5, "raw">>
    /\ "ide2" \notin DOMAIN calls[3].payload
    /\ result.outcome = "ok"

\* the writes of the model that no summary rule governs
PlainWriteOps ==
    {"create_vm_snapshot", "clone_vm", "migrate_vm", "create_user", "update_user",
     "delete_user", "set_acl", "create_pool", "delete_pool", "vzdump", "service_action"}

\* C15: a write that no summary rule governs and that succeeds answers with
\* one text block whose JSON is the object {"task": r}, r being the response
\* of the write call
C15_WriteAnswersTask ==
    (op \in PlainWriteOps /\ result.outcome = "ok")
        => /\ result.form = "json"
           /\ Loads(result.body) = JObj(<< <<StrTask, calls[Len(calls)].resp.val>> >>)

\* the reads of the model that no reshaping rule governs
PlainReadOps ==
    {"get_nodes", "get_storage", "get_vm_status", "list_users", "list_services",
     "ceph_status", "list_dc_firewall_rules", "ha_list_groups",
     "replication_list_jobs", "sdn_list_zones"}

C16_WitnessTable ==
    /\ op = "get_nodes"
    /\ result.outcome = "ok"
    /\ calls[1].resp.val[1] = "arr"
    /\ Len(calls[1].resp.val[2]) = 2
    /\ calls[1].resp.val[2][1] = JObj(<< << <<"id">>, JNum(0) >>,
                                         << <<"\"">>, JStr(<<"a">>) >> >>)

\* the payload of the call carries the flag o under key as 1 or 0
FlagSentAsInteger(o, key) ==
    o # <<>> =>
        LET payload == calls[1].payload
        IN  /\ key \in DOMAIN payload
            /\ payload[key] = (IF o[1] THEN 1 ELSE 0)

\* C17: a boolean parameter of a write (vmstate, full, online, enable,
\* propagate, delete) that the caller gives reaches the Facade as the
\* integer 1 when true and 0 when false
C17_BooleansReachAsIntegers ==
    /\ op = "create_vm_snapshot" => FlagSentAsInteger(args.vmstate, "vmstate")
    /\ op = "clone_vm" => FlagSentAsInteger(args.full, "full")
    /\ op = "migrate_vm" => FlagSentAsInteger(args.online, "online")
    /\ op = "create_user" => FlagSentAsInteger(args.enable, "enable")
    /\ op = "set_acl" => /\ FlagSentAsInteger(args.propagate, "propagate")
                         /\ FlagSentAsInteger(args.delete, "delete")

\* an ACL change with propagate true and delete false
C17_Witness ==
    /\ op = "set_acl"
    /\ args.propagate = <<TRUE>>
    /\ args.delete = <<FALSE>>
    /\ calls[1].payload.propagate = 1
    /\ calls[1].payload.delete = 0

\* a snapshot without RAM state, a full clone, an offline migration
C17_WitnessVm ==
    \/ op = "create_vm_snapshot" /\ args.vmstate = <<FALSE>> /\ calls[1].payload.vmstate = 0
    \/ op = "clone_vm" /\ args.full = <<TRUE>> /\ calls[1].payload.full = 1
    \/ op = "migrate_vm" /\ args.online = <<FALSE>> /\ calls[1].payload.online = 0

\* an optional parameter left None is not a key of the payload
NoneLeftOut(o, key) == o = <<>> => key \notin DOMAIN calls[1].payload

\* an optional text left None or given empty is not a key of the payload
TextLeftOut(o, key) ==
    (o = <<>> \/ o[1] = <<>>) => key \notin DOMAIN calls[1].payload

\* C18: an optional parameter of a write whose value is absent (None) or
\* empty is left out of the payload sent to the Facade
C18_AbsentOrEmptyLeftOut ==
    /\ op = "create_vm_snapshot" => /\ NoneLeftOut(args.vmstate, "vmstate")
                                    /\ TextLeftOut(args.description, "description")
    /\ op = "create_pool" => TextLeftOut(args.comment, "comment")
    /\ op = "create_user" => /\ TextLeftOut(args.password, "password")
                             /\ TextLeftOut(args.comment, "comment")
                             /\ NoneLeftOut(args.expire, "expire")
                             /\ NoneLeftOut(args.enable, "enable")

\* the loop takes a call other than execute_vm_command
AnotherCall ==
    \/ StartVm
    \/ StopVm
    \/ ShutdownVm
    \/ ResetVm
    \/ DeleteVm
    \/ ProxmoxRequest
    \/ CreateVm
    \/ StopContainer
    \/ RestartContainer
    \/ GetVms
    \/ GetNodes
    \/ GetStorage
    \/ ListUsers
    \/ DeleteUser
    \/ ListServices
    \/ Vzdump
    \/ CephStatus
    \/ ListDcFirewallRules
    \/ HaListGroups
    \/ DeletePool
    \/ ReplicationListJobs
    \/ SdnListZones
    \/ GetVmStatus
    \/ CreateVmSnapshot
    \/ CloneVm
    \/ MigrateVm
    \/ CreateUser
    \/ UpdateUser
    \/ SetAcl
    \/ CreatePool
    \/ ServiceAction

\* C19: while an execute_vm_command call waits for the hypervisor to run
\* the command in the guest, the loop can take another call
C19_LoopFreeWhileExecWaits ==
    (op = "execute_vm_command" /\ result.outcome = "pending") => ENABLED AnotherCall

\* C20: service_action with an action other than start, stop and restart
\* is rejected as unsupported without a Facade call; with one of the three
\* it issues exactly one POST to the service's sub-path of that name
C20_UnlistedActionRejected ==
    op = "service_action" =>
        IF args.action \in ListedActions
        THEN /\ Len(calls) = 1
             /\ calls[1].verb = "POST"
             /\ calls[1].path = <<"nodes", args.node, "services", args.service, args.action>>
        ELSE /\ calls = <<>>
             /\ result.outcome = "error"
             /\ result.why = "unsupported"

IsExec(c) == c.verb = "POST" /\ c.path = VmPath(args.node, args.vmid, <<"agent", "exec">>)
ExecCalls == SelectSeq(calls, IsExec)

\* what the console manager did with the status read of the call
ConsoleOutcome ==
    console_execute_command(args.node, args.vmid, args.command, calls[1].resp,
                            RespFail(MsgTimeout)).result

C24_WitnessRunning ==
    /\ op = "execute_vm_command"
    /\ Len(calls) = 2
    /\ Len(ExecCalls) = 1
    /\ result.outcome = "ok"

\* C25: proxmox_request with a method other than GET, POST, PUT or DELETE,
\* or with an empty or non-string path, fails with an error and makes no
\* Facade call; otherwise it makes exactly one Facade call, with the verb
\* the method names
C25_PassthroughValidates ==
    op = "proxmox_request" =>
        IF args.method \notin {MGet, MPost, MPut, MDelete}
              \/ args.path = NonStrPath \/ args.path = <<>>
        THEN /\ result.outcome = "error"
             /\ calls = <<>>
        ELSE /\ Len(calls) = 1
             /\ calls[1].verb = (CASE args.method = MGet -> "GET"
                                   [] args.method = MPost -> "POST"
                                   [] args.method = MPut -> "PUT"
                                   [] args.method = MDelete -> "DELETE")

\* the method PATCH, the method in lower case, the empty path, the number
C25_Witness ==
    /\ op = "proxmox_request"
    /\ args.method = MGetLower
    /\ args.path = <<"n","o","d","e","s">>
    /\ calls = <<>>
    /\ result.outcome = "error"

C25_WitnessPath ==
    /\ op = "proxmox_request"
    /\ args.method = MDelete
    /\ args.path \in {NonStrPath, <<>>}
    /\ calls = <<>>

C25_WitnessOneCall ==
    /\ op = "proxmox_request"
    /\ args.method = MPut
    /\ Len(calls) = 1
    /\ calls[1].verb = "PUT"

\* C26: the path the passthrough hands to the Facade is in normal form: it
\* is not empty, starts neither with "/" nor with "api2/json/", and
\* normalizing it again leaves it as it is
C26_NormalFormReached ==
    (op = "proxmox_request" /\ calls # <<>>) =>
        /\ calls[1].path # <<>>
        /\ ~StartsWith(calls[1].path, <<"/">>)
        /\ ~StartsWith(calls[1].path, ApiPrefix)
        /\ NormalizePath(calls[1].path) = calls[1].path

StopCalls == SelectSeq(calls, IsStop)
DeleteCalls == SelectSeq(calls, IsDelete)

\* C27: in delete_vm with force set on a running VM, a failing stop call is
\* the last call and the operation ends in an error; a delete call comes
\* only right after a stop call that returned
C27_NoDeleteAfterFailedStop ==
    (op = "delete_vm" /\ args.force /\ calls[1].resp.ok
        /\ DictGet(calls[1].resp.val, "status", None) = "running")
        => /\ \A i \in 1..Len(calls) :
                (IsStop(calls[i]) /\ ~calls[i].resp.ok)
                    => /\ i = Len(calls)
                       /\ DeleteCalls = <<>>
                       /\ result.outcome = "error"
           /\ \A i \in 1..Len(calls) :
                IsDelete(calls[i])
                    => /\ i > 1
                       /\ IsStop(calls[i - 1])
                       /\ calls[i - 1].resp.ok

\* the stop call of a forced deletion fails
C27_Witness ==
    /\ op = "delete_vm"
    /\ args.force
    /\ Len(calls) = 2
    /\ IsStop(calls[2])
    /\ ~calls[2].resp.ok
    /\ result.outcome = "error"

\* the stop call returns and the delete call follows
C27_WitnessDeleted ==
    /\ op = "delete_vm"
    /\ args.force
    /\ Len(calls) = 3
    /\ IsStop(calls[2]) /\ calls[2].resp.ok
    /\ IsDelete(calls[3])

\* C29: when delete_vm's status read reports a status other than
\* "running" (stopped, paused, or none), delete_vm issues exactly one
\* delete call and no stop call, whatever force is
C29_NotRunningDeletesWithoutStop ==
    (op = "delete_vm" /\ calls[1].resp.ok
        /\ DictGet(calls[1].resp.val, "status", None) # "running")
        => /\ Len(DeleteCalls) = 1
           /\ StopCalls = <<>>

\* a paused VM deleted with force set
C29_Witness ==
    /\ op = "delete_vm"
    /\ args.force
    /\ calls[1].resp.ok
    /\ DictGet(calls[1].resp.val, "status", None) = "paused"
    /\ Len(calls) = 2
    /\ IsDelete(calls[2])

\* a VM whose status read has no status field, deleted without force
C29_WitnessNoStatus ==
    /\ op = "delete_vm"
    /\ ~args.force
    /\ calls[1].resp.ok
    /\ "status" \notin DOMAIN calls[1].resp.val
    /\ Len(DeleteCalls) = 1

IsCreate(c) == c.verb = "POST" /\ c.path = <<"nodes", args.node, "qemu">>
CreateCalls == SelectSeq(calls, IsCreate)

\* C28: create_vm issues the create call at most once, and only after the
\* existence probe failed with a "does not exist" error and the chosen
\* storage was found in the node's storage listing with images content;
\* without a create call the operation ends in an error
C28_CreateOnlyAfterChecks ==
    op = "create_vm" =>
        /\ Len(CreateCalls) <= 1
        /\ CreateCalls # <<>> =>
              /\ Len(calls) = 3
              /\ IsCreate(calls[3])
              /\ ~calls[1].resp.ok
              /\ Contains(StrDoesNotExist, Lower(calls[1].resp.msg))
              /\ calls[2].resp.ok
              /\ LET chosen == calls[3].payload.scsi0[1]
                     listing == calls[2].resp.val
                 IN  /\ args.storage # None => chosen = args.storage
                     /\ \E i \in 1..Len(listing) :
                           /\ listing[i].storage = chosen
                           /\ "content" \in DOMAIN listing[i]
                           /\ Contains(StrImages, listing[i].content)
        /\ CreateCalls = <<>> => result.outcome = "error"

\* the probe says the VM does not exist, the named storage holds images
C28_Witness ==
    /\ op = "create_vm"
    /\ args.storage = "local"
    /\ Len(CreateCalls) = 1
    /\ result.outcome = "ok"

\* the named storage is on the node but holds no images
C28_WitnessNoImages ==
    /\ op = "create_vm"
    /\ args.storage = "local-lvm"
    /\ Len(calls) = 2
    /\ calls[2].resp.ok
    /\ \E i \in 1..Len(calls[2].resp.val) :
          /\ calls[2].resp.val[i].storage = "local-lvm"
          /\ calls[2].resp.val[i].content = StrIso
    /\ result.outcome = "error"

\* the probe fails with another error; no storage fit for auto-detection
C28_WitnessOther ==
    /\ op = "create_vm"
    /\ result.outcome = "error"
    /\ \/ Len(calls) = 1 /\ ~calls[1].resp.ok /\ calls[1].resp.msg = MsgTimeout
       \/ Len(calls) = 2 /\ args.storage = None /\ calls[2].resp.ok

Unset(v) == v = <<>> \/ v = <<<<>>>>

RequiredAbsent ==
    IF Unset(environ.config_path)
    THEN Unset(environ.host) \/ Unset(environ.user) \/ Unset(environ.token_name)
             \/ Unset(environ.token_value)
    ELSE /\ environ.file.kind = "json"
         /\ \/ "proxmox" \notin DOMAIN environ.file.data
            \/ "host" \notin DOMAIN environ.file.data.proxmox
            \/ environ.file.data.proxmox.host = <<>>

IsMainError(text) == text = MsgHint \/ text[1] = "Error: "

C22_AbsentConfigIsFatal ==
    RequiredAbsent =>
        /\ phase \in {"main", "failed", "interrupted"}
        /\ config = <<>>
        /\ setup_calls = 0
        /\ shared = Unbuilt
        /\ stdout = {}
        /\ phase = "failed" =>
              /\ exit_status = <<1>>
              /\ \E text \in stderr : stderr = {text} /\ IsMainError(text)
              /\ ~Unset(environ.config_path) =>
                    stderr = {<<"Error: ", "Failed to load config: ",
                                "Proxmox host cannot be empty">>}
              /\ Unset(environ.config_path) /\ environ.port \in {<<>>, <<<<"8","0","0","6">>>>} =>
                    stderr = {MsgHint}

\* no config path, the token secret set to the empty string: main has failed
C22_Witness ==
    /\ environ.config_path = <<>>
    /\ environ.token_value = <<<<>>>>
    /\ environ.host = <<StrHost>>
    /\ phase = "failed"
    /\ stderr = {MsgHint}

\* a config file whose proxmox section has no host: main has failed
C22_WitnessFile ==
    /\ environ.config_path = <<ConfigPath>>
    /\ environ.file.kind = "json"
    /\ "proxmox" \in DOMAIN environ.file.data
    /\ "host" \notin DOMAIN environ.file.data.proxmox
    /\ phase = "failed"
    /\ exit_status = <<1>>

(***************************************************************************)
(* C21: no diagnostic, log or error text is written to standard output.    *)
(* In every state of the process standard output holds protocol frames     *)
(* only; every handler on the root logger is a stream handler on standard  *)
(* error or a file handler on a file; when main ended in its except        *)
(* branches its message is on standard error.                              *)
(***************************************************************************)
C21_StdoutKeptForFrames ==
    /\ stdout \subseteq {Frame}
    /\ \A i \in 1..Len(root_logger.handlers) :
          LET handler == root_logger.handlers[i]
          IN  IF handler.kind = "stream"
              THEN handler.target = "stderr"
              ELSE handler.kind = "file" /\ IsAbs(handler.target)
    /\ phase = "failed" => \E text \in stderr : IsMainError(text)
    /\ phase = "interrupted" => MsgShutdown \in stderr

\* the loop is running, an error was logged and a frame written: the log
\* text is on standard error, the frame on standard output
C21_Witness ==
    /\ phase = "serving"
    /\ stdout = {Frame}
    /\ MsgToolLog \in stderr
    /\ Len(root_logger.handlers) = 2

\* logging was set up, the connection failed: both texts on standard error
C21_WitnessFailed ==
    /\ phase = "failed"
    /\ setup_calls = 1
    /\ MsgConnect \in stderr
    /\ <<"Error: ">> \o MsgConnect \in stderr
    /\ stdout = {}

\* the loop was stopped by a signal
C21_WitnessStopped ==
    /\ phase = "stopped"
    /\ exit_status = <<0>>
    /\ stdout = {Frame}

(***************************************************************************)
(* C30: repeated setup_logging never accumulates handlers.  After a call   *)
(* that returned, the root logger holds exactly the handlers that call     *)
(* made: one stream handler at ERROR on standard error and at most one     *)
(* file handler.  At any time the root logger holds at most one stream     *)
(* and one file handler, all made by the same call.                        *)
(***************************************************************************)
HandlersOf(kind) ==
    {i \in 1..Len(root_logger.handlers) : root_logger.handlers[i].kind = kind}

C30_LatestHandlersOnly ==
    /\ Cardinality(HandlersOf("stream")) <= 1
    /\ Cardinality(HandlersOf("file")) <= 1
    /\ \A i, j \in 1..Len(root_logger.handlers) :
          root_logger.handlers[i].made = root_logger.handlers[j].made
    /\ phase = "configured" =>
          /\ Cardinality(HandlersOf("stream")) = 1
          /\ Len(root_logger.handlers) = Cardinality(HandlersOf("stream") \cup HandlersOf("file"))
          /\ \A i \in 1..Len(root_logger.handlers) :
                /\ root_logger.handlers[i].made = setup_calls
                /\ root_logger.handlers[i].kind = "stream" =>
                      /\ root_logger.handlers[i].target = "stderr"
                      /\ root_logger.handlers[i].levelno = LevelNo(StrError)

\* a second call or a later one returned, with a file handler and a console handler
C30_Witness ==
    /\ setup_calls >= 2
    /\ phase = "configured"
    /\ Len(root_logger.handlers) = 2

\* a later call returned without a file handler after one that had made one
C30_WitnessConsoleOnly ==
    /\ setup_calls >= 2
    /\ phase = "configured"
    /\ Len(root_logger.handlers) = 1
    /\ MsgFileLogOff \in stderr

====
